---- MODULE Spec2Model ----
(***************************************************************************)
(* Production Weekly Extractor: reconciliation engine.                     *)
(*                                                                         *)
(* Text values are sequences of characters; a character is a one-letter    *)
(* string, and a non-ASCII character is written by its code point          *)
(* ("U+2014").  Field names, categories and run labels are plain strings:  *)
(* the program only copies or compares them.                               *)
(***************************************************************************)
EXTENDS Integers, Sequences, FiniteSets, TLC

(***************************************************************************)
(* Bounds of the model.                                                    *)
(***************************************************************************)
\* longest old run / new run handed to compare_cmd
MaxOld == 2
MaxNew == 3

(***************************************************************************)
(* Characters and the str methods the program uses.                        *)
(***************************************************************************)
EmDash == "U+2014"
EnDash == "U+2013"

UpperChars == <<"A","B","C","D","E","F","G","H","I","J","K","L","M","N","O","P","Q","R","S","T","U","V","W","X","Y","Z">>
LowerChars == <<"a","b","c","d","e","f","g","h","i","j","k","l","m","n","o","p","q","r","s","t","u","v","w","x","y","z">>
DigitChars == <<"0","1","2","3","4","5","6","7","8","9">>

\* the ASCII printable characters in code point order, then the non-ASCII
\* characters of the model: e-acute, the combining acute accent, the en and
\* em dashes and the curly quotes
CodeOrder == <<" ","!","\"","#","$","%","&","'","(",")","*","+",",","-",".","/","0","1","2","3","4","5","6","7","8","9",":",";","<","=",">","?","@","A","B","C","D","E","F","G","H","I","J","K","L","M","N","O","P","Q","R","S","T","U","V","W","X","Y","Z","[","\\","]","^","_","U+0060","a","b","c","d","e","f","g","h","i","j","k","l","m","n","o","p","q","r","s","t","u","v","w","x","y","z","{","|","}","~","U+00E9","U+0301","U+2013","U+2014",
              "U+2018","U+2019","U+201C","U+201D">>

Range(s) == {s[i] : i \in DOMAIN s}

UpperSet == Range(UpperChars)
LowerSet == Range(LowerChars)
DigitSet == Range(DigitChars)

\* ord(c)
OrdOf == [c \in Range(CodeOrder) |-> CHOOSE i \in DOMAIN CodeOrder : CodeOrder[i] = c]
Ord(c) == OrdOf[c]

SpaceSet == {" ", "\t", "\n"}
AlphaSet == UpperSet \cup LowerSet

IsSpace(c) == c \in SpaceSet
IsUpper(c) == c \in UpperSet
IsLower(c) == c \in LowerSet
IsAlpha(c) == c \in AlphaSet
IsDigit(c) == c \in DigitSet

DigitValOf == [c \in DigitSet |-> (CHOOSE i \in DOMAIN DigitChars : DigitChars[i] = c) - 1]
DigitVal(c) == DigitValOf[c]

ToLower == [c \in UpperSet |-> LowerChars[CHOOSE i \in DOMAIN UpperChars : UpperChars[i] = c]]
ToUpper == [c \in LowerSet |-> UpperChars[CHOOSE i \in DOMAIN LowerChars : LowerChars[i] = c]]

\* str.lower() on one character
LowerChar(c) == IF IsUpper(c) THEN ToLower[c] ELSE c

\* str.upper() on one character
UpperChar(c) == IF IsLower(c) THEN ToUpper[c] ELSE c

Lower(s) == <<>> \o [i \in DOMAIN s |-> LowerChar(s[i])]
Upper(s) == <<>> \o [i \in DOMAIN s |-> UpperChar(s[i])]

Max(a, b) == IF a >= b THEN a ELSE b
Min(a, b) == IF a <= b THEN a ELSE b

\* min / max of a non-empty set of integers
MinOf(S) == CHOOSE x \in S : \A y \in S : x <= y
MaxOf(S) == CHOOSE x \in S : \A y \in S : x >= y

\* <<1, ..., Len(s)>>
Indices(s) == [i \in 1..Len(s) |-> i]

\* str.lstrip() / str.rstrip() / str.strip()
LStrip(s) ==
    LET keep == {i \in DOMAIN s : ~IsSpace(s[i])}
    IN  IF keep = {} THEN <<>> ELSE SubSeq(s, MinOf(keep), Len(s))

RStrip(s) ==
    LET keep == {i \in DOMAIN s : ~IsSpace(s[i])}
    IN  IF keep = {} THEN <<>> ELSE SubSeq(s, 1, MaxOf(keep))

Strip(s) == RStrip(LStrip(s))

\* str.split(): the maximal runs of non-space characters, in order
Split(s) ==
    LET IsStart(i) == ~IsSpace(s[i]) /\ (i = 1 \/ IsSpace(s[i - 1]))
        IsEnd(i)   == ~IsSpace(s[i]) /\ (i = Len(s) \/ IsSpace(s[i + 1]))
        starts == SelectSeq(Indices(s), IsStart)
        ends   == SelectSeq(Indices(s), IsEnd)
    IN  [k \in 1..Len(starts) |-> SubSeq(s, starts[k], ends[k])]

\* sep.join(parts)
RECURSIVE Join(_, _)
Join(parts, sep) ==
    IF Len(parts) = 0 THEN <<>>
    ELSE IF Len(parts) = 1 THEN parts[1]
    ELSE parts[1] \o sep \o Join(Tail(parts), sep)

\* a < b for str: lexicographic on code points
StrLess(a, b) ==
    LET n == Min(Len(a), Len(b))
        d == {i \in 1..n : a[i] # b[i]}
    IN  IF d = {} THEN Len(a) < Len(b)
        ELSE Ord(a[MinOf(d)]) < Ord(b[MinOf(d)])

\* sorted(S) for a set of str
RECURSIVE Sorted(_)
Sorted(S) ==
    IF S = {} THEN <<>>
    ELSE LET m == CHOOSE x \in S : \A y \in S : y = x \/ StrLess(x, y)
         IN  <<m>> \o Sorted(S \ {m})

(***************************************************************************)
(* _norm_text, NA_TOKENS, _equiv                                           *)
(***************************************************************************)
\* re.sub(r"\s+", " ", t): every run of whitespace becomes one space
CollapseSpaces(t) ==
    LET Kept(i) == ~IsSpace(t[i]) \/ i = 1 \/ ~IsSpace(t[i - 1])
        kept == SelectSeq(Indices(t), Kept)
    IN  [k \in 1..Len(kept) |-> IF IsSpace(t[kept[k]]) THEN " " ELSE t[kept[k]]]

_norm_text(s) == CollapseSpaces(Lower(Strip(s)))

NA_TOKENS == { <<>>, <<"n","/","a">>, <<"n","a">>, <<"n","o","n","e">>, <<"-">>, <<EmDash>> }

\* _equiv without the placeholder rule
_equiv_strict(a, b) == _norm_text(a) = _norm_text(b)

_equiv(a, b) ==
    LET sa == _norm_text(a)
        sb == _norm_text(b)
    IN  IF sa \in NA_TOKENS /\ sb \in NA_TOKENS THEN TRUE ELSE sa = sb

(***************************************************************************)
(* _norm_key                                                               *)
(***************************************************************************)
\* the character at index i, "" past either end
At(s, i) == IF i \in DOMAIN s THEN s[i] ELSE ""

\* where the run of characters of Class that starts at index i stops: the
\* first index >= i whose character is outside the class, Len(s) + 1 if there
\* is none
RunEnd(s, i, Class) ==
    MinOf({j \in i..(Len(s) + 1) : j = Len(s) + 1 \/ s[j] \notin Class})

\* "(" at index q opens (?:aka|a\.k\.a\.|w[./-]?\s*t), letters in either case
AkaKeywordAt(s, q) ==
    LET l(k) == LowerChar(At(s, q + k))
        p == IF l(2) \in {".", "/", "-"} THEN q + 3 ELSE q + 2
    IN  /\ At(s, q) = "("
        /\ \/ l(1) = "a" /\ l(2) = "k" /\ l(3) = "a"
           \/ l(1) = "a" /\ l(2) = "." /\ l(3) = "k" /\ l(4) = "." /\ l(5) = "a" /\ l(6) = "."
           \/ l(1) = "w" /\ LowerChar(At(s, RunEnd(s, p, SpaceSet))) = "t"

\* the clause pattern matches with its "(" at q: \s*[:\-]?\s*[^)]* takes
\* anything up to the first ")" after the keyword
AkaMatchAt(s, q) == AkaKeywordAt(s, q) /\ \E e \in (q + 1)..Len(s) : s[e] = ")"

AkaEnd(s, q) == MinOf({e \in (q + 1)..Len(s) : s[e] = ")"})

\* the leading \s* takes the whole run of whitespace before the "("
AkaStart(s, q, from) == MinOf({j \in from..q : \A i \in j..(q - 1) : IsSpace(s[i])})

\* re.sub(clause, '', s) on s[from..]: leftmost matches, left to right
RECURSIVE StripAkaFrom(_, _)
StripAkaFrom(s, from) ==
    LET qs == {q \in from..Len(s) : AkaMatchAt(s, q)}
    IN  IF qs = {} THEN SubSeq(s, from, Len(s))
        ELSE LET q == MinOf(qs)
             IN  SubSeq(s, from, AkaStart(s, q, from) - 1) \o StripAkaFrom(s, AkaEnd(s, q) + 1)

StripAka(s) == StripAkaFrom(s, 1)

\* unicodedata.normalize("NFKD", c) for the characters of the model
NfkdOf(c) == IF c = "U+00E9" THEN <<"e", "U+0301">> ELSE <<c>>

Nfkd(s) ==
    LET two == <<>> \o [k \in 1..(2 * Len(s)) |->
                   LET d == NfkdOf(s[(k + 1) \div 2])
                   IN  IF k % 2 = 1 THEN d[1] ELSE IF Len(d) = 2 THEN d[2] ELSE ""]
        Real(c) == c # ""
    IN  SelectSeq(two, Real)

\* unicodedata.combining(c) != 0
IsCombining(c) == c = "U+0301"

DropCombining(s) ==
    LET Kept(c) == ~IsCombining(c)
    IN  SelectSeq(s, Kept)

\* the chain of str.replace calls: curly quotes and dashes to ASCII
FoldPunctChar(c) ==
    IF c \in {"U+2019", "U+2018"} THEN "'"
    ELSE IF c \in {"U+201C", "U+201D"} THEN "\""
    ELSE IF c \in {EnDash, EmDash} THEN "-"
    ELSE c

FoldPunct(s) == <<>> \o [i \in DOMAIN s |-> FoldPunctChar(s[i])]

\* re.sub(r"[^a-z0-9]+", " ", s)
NonAlnumToSpace(s) ==
    LET Alnum(c) == IsLower(c) \/ IsDigit(c)
        Kept(i) == Alnum(s[i]) \/ i = 1 \/ Alnum(s[i - 1])
        kept == SelectSeq(Indices(s), Kept)
    IN  <<>> \o [k \in 1..Len(kept) |-> IF Alnum(s[kept[k]]) THEN s[kept[k]] ELSE " "]

\* without the closing " ".join(s.split())
_norm_key_nojoin(name) ==
    IF name = <<>> THEN <<>>
    ELSE LET s1 == Strip(StripAka(name))
             s2 == FoldPunct(DropCombining(Nfkd(s1)))
             s3 == Strip(Lower(s2))
         IN  NonAlnumToSpace(s3)

_norm_key(name) ==
    IF name = <<>> THEN <<>>
    ELSE LET s1 == Strip(StripAka(name))
             s2 == FoldPunct(DropCombining(Nfkd(s1)))
             s3 == Strip(Lower(s2))
         IN  Join(Split(NonAlnumToSpace(s3)), <<" ">>)

(***************************************************************************)
(* Dates.  A date is <<year, month, day>>; None is the empty tuple.  A span *)
(* is <<start, end>>.                                                       *)
(***************************************************************************)
None == <<>>

\* the month names, January first
MonthNames ==
    << <<"J","a","n","u","a","r","y">>,
       <<"F","e","b","r","u","a","r","y">>,
       <<"M","a","r","c","h">>,
       <<"A","p","r","i","l">>,
       <<"M","a","y">>,
       <<"J","u","n","e">>,
       <<"J","u","l","y">>,
       <<"A","u","g","u","s","t">>,
       <<"S","e","p","t","e","m","b","e","r">>,
       <<"O","c","t","o","b","e","r">>,
       <<"N","o","v","e","m","b","e","r">>,
       <<"D","e","c","e","m","b","e","r">> >>

IsLeap(y) == (y % 4 = 0 /\ y % 100 # 0) \/ y % 400 = 0

DaysInMonth(y, m) ==
    IF m = 2 THEN (IF IsLeap(y) THEN 29 ELSE 28)
    ELSE IF m \in {4, 6, 9, 11} THEN 30 ELSE 31

\* datetime.date(y, m, d) does not raise; m = 0 stands for "no such month"
ValidDate(y, m, d) == y \in 1..9999 /\ m \in 1..12 /\ d \in 1..DaysInMonth(y, m)

\* a < b for dates
DateLess(a, b) ==
    \/ a[1] < b[1]
    \/ a[1] = b[1] /\ a[2] < b[2]
    \/ a[1] = b[1] /\ a[2] = b[2] /\ a[3] < b[3]

\* int(s) for a string of digits
RECURSIVE ToInt(_)
ToInt(s) == IF s = <<>> THEN 0 ELSE 10 * ToInt(SubSeq(s, 1, Len(s) - 1)) + DigitVal(s[Len(s)])

StartsWith(s, prefix) == Len(prefix) <= Len(s) /\ SubSeq(s, 1, Len(prefix)) = prefix

\* the indices where a run of letters begins: a search for a pattern that
\* opens with ([A-Za-z]+) succeeds first at one of these
WordStarts(t) == {p \in DOMAIN t : IsAlpha(t[p]) /\ (p = 1 \/ ~IsAlpha(t[p - 1]))}

NoMatch == [found |-> FALSE]

\* one step of a pattern: from lo to hi characters of the class cls, as many
\* as there are; hi = -1 is "no limit"
Step(cls, lo, hi) == [cls |-> cls, lo |-> lo, hi |-> hi]

\* how many characters the step takes at index i
PatTake(t, i, st) ==
    LET run == RunEnd(t, i, st.cls) - i
    IN  IF st.hi < 0 THEN run ELSE Min(run, st.hi)

PatCons(i, rest) == IF rest = <<>> THEN <<>> ELSE <<i>> \o rest

\* the pattern tried at index i: <<>> when it does not match, else where each
\* step starts, then where the match ends.  A step's class and the next
\* step's are disjoint wherever they could compete, so taking less never
\* turns a failure into a match.
RECURSIVE PatEnds(_, _, _)
PatNext(t, i, steps, n) ==
    IF n < Head(steps).lo THEN <<>> ELSE PatCons(i, PatEnds(t, i + n, Tail(steps)))

PatEnds(t, i, steps) ==
    IF steps = <<>> THEN <<i>> ELSE PatNext(t, i, steps, PatTake(t, i, Head(steps)))

\* the text the k-th step took
Group(t, ends, k) == SubSeq(t, ends[k], ends[k + 1] - 1)

(***************************************************************************)
(* _parse_span_flexible, _equiv_dates, _norm_type, _start_month_from_span  *)
(***************************************************************************)
\* t.replace(em dash, "-").replace(en dash, "-").replace(",", "")
FlexClean(t) ==
    LET NotComma(c) == c # ","
    IN  SelectSeq(<<>> \o [i \in DOMAIN t |-> IF t[i] \in {EmDash, EnDash} THEN "-" ELSE t[i]],
                  NotComma)

\* ([A-Za-z]+)\s+(\d{1,2})\s*-\s*([A-Za-z]+)\s+(\d{1,2})\s+(\d{4})
FlexPattern ==
    << Step(AlphaSet, 1, -1), Step(SpaceSet, 1, -1), Step(DigitSet, 1, 2),
       Step(SpaceSet, 0, -1), Step({"-"}, 1, 1), Step(SpaceSet, 0, -1),
       Step(AlphaSet, 1, -1), Step(SpaceSet, 1, -1), Step(DigitSet, 1, 2),
       Step(SpaceSet, 1, -1), Step(DigitSet, 4, 4) >>

\* m.groups()
FlexGroups(t, ends) ==
    IF ends = <<>> THEN NoMatch
    ELSE [found |-> TRUE,
          m1 |-> Group(t, ends, 1), d1 |-> Group(t, ends, 3),
          m2 |-> Group(t, ends, 7), d2 |-> Group(t, ends, 9),
          y  |-> Group(t, ends, 11)]

FlexMatchAt(t, p) == FlexGroups(t, PatEnds(t, p, FlexPattern))

FlexFirst(t, hits) == IF hits = {} THEN NoMatch ELSE FlexMatchAt(t, MinOf(hits))

\* re.search: the leftmost index where the pattern matches
FlexSearch(t) == FlexFirst(t, {p \in WordStarts(t) : PatEnds(t, p, FlexPattern) # <<>>})

\* mnum: the first month whose name starts with the first three letters of
\* tok; 0 where the code returns None (datetime.date then raises TypeError)
mnum(tok) ==
    LET t3 == SubSeq(Lower(tok), 1, Min(3, Len(tok)))
        ks == {k \in 1..12 : StartsWith(Lower(MonthNames[k]), t3)}
    IN  IF ks = {} THEN 0 ELSE MinOf(ks)

\* the try block, on the numbers of the match
FlexSpan(y, a, d1, b, d2) ==
    IF ~ValidDate(y, b, d2) \/ ~ValidDate(y, a, d1) THEN None
    \* end < start: the name `year` is not defined, the NameError is caught
    \* by `except Exception`
    ELSE IF DateLess(<<y, b, d2>>, <<y, a, d1>>) THEN None
    ELSE <<<<y, a, d1>>, <<y, b, d2>>>>

FlexSpanOf(m) ==
    IF ~m.found THEN None
    ELSE FlexSpan(ToInt(m.y), mnum(m.m1), ToInt(m.d1), mnum(m.m2), ToInt(m.d2))

_parse_span_flexible(s) ==
    IF s = <<>> THEN None ELSE FlexSpanOf(FlexSearch(FlexClean(Strip(s))))

EquivSpans(pa, pb, a, b) == IF pa = None \/ pb = None THEN _equiv(a, b) ELSE pa = pb

_equiv_dates(a, b) == EquivSpans(_parse_span_flexible(a), _parse_span_flexible(b), a, b)

\* the dict as a set of <<key, value>> pairs
_TYPE_ALIASES ==
    { <<<<"t","e","l","e","v","i","s","i","o","n">>, <<"s","e","r","i","e","s">>>>,
      <<<<"t","v"," ","s","e","r","i","e","s">>, <<"s","e","r","i","e","s">>>>,
      <<<<"t","v">>, <<"s","e","r","i","e","s">>>>,
      <<<<"f","e","a","t","u","r","e">>, <<"f","e","a","t","u","r","e"," ","f","i","l","m">>>>,
      <<<<"f","i","l","m">>, <<"f","e","a","t","u","r","e"," ","f","i","l","m">>>>,
      <<<<"f","e","a","t","u","r","e"," ","f","i","l","m">>, <<"f","e","a","t","u","r","e"," ","f","i","l","m">>>>,
      <<<<"s","e","r","i","e","s">>, <<"s","e","r","i","e","s">>>> }

_norm_type(s) ==
    LET k == Lower(Strip(s))
        hit == {kv \in _TYPE_ALIASES : kv[1] = k}
    IN  IF hit = {} THEN k ELSE (CHOOSE kv \in hit : TRUE)[2]

\* span[0].strftime("%B"), else the stripped text
MonthOfSpan(span, s) == IF span # None THEN MonthNames[span[1][2]] ELSE Strip(s)

_start_month_from_span(s) == MonthOfSpan(_parse_span_flexible(s), s)

(***************************************************************************)
(* RE_DATE_RANGE, _start_date_from_shooting_dates,                         *)
(* _approx_start_date_from_start_month                                     *)
(***************************************************************************)
\* MONTHS[name.lower()]: 1..12 for a full month name, 0 for a KeyError
MONTHS(name) ==
    LET ks == {k \in 1..12 : Lower(MonthNames[k]) = Lower(name)}
    IN  IF ks = {} THEN 0 ELSE CHOOSE k \in ks : TRUE

\* ([A-Za-z]+)\s+(\d{1,2}) , (?:,\s*(\d{4}))? and
\* \s*[-en dash]\s*([A-Za-z]+)\s+(\d{1,2}),\s*(\d{4})
RangeHead == << Step(AlphaSet, 1, -1), Step(SpaceSet, 1, -1), Step(DigitSet, 1, 2) >>

RangeYear == << Step({","}, 1, 1), Step(SpaceSet, 0, -1), Step(DigitSet, 4, 4) >>

RangeTail ==
    << Step(SpaceSet, 0, -1), Step({"-", EnDash}, 1, 1), Step(SpaceSet, 0, -1),
       Step(AlphaSet, 1, -1), Step(SpaceSet, 1, -1), Step(DigitSet, 1, 2),
       Step({","}, 1, 1), Step(SpaceSet, 0, -1), Step(DigitSet, 4, 4) >>

\* m.groups() and, as 'all', m.group(0): the optional year takes part when
\* the pattern matches with it; y1 is <<>> when it takes no part
DateRangeGroups(t, with_year, without) ==
    IF with_year # <<>>
    THEN [found |-> TRUE, all |-> SubSeq(t, with_year[1], with_year[16] - 1),
          m1 |-> Group(t, with_year, 1), d1 |-> Group(t, with_year, 3),
          y1 |-> Group(t, with_year, 6),
          m2 |-> Group(t, with_year, 10), d2 |-> Group(t, with_year, 12),
          y2 |-> Group(t, with_year, 15)]
    ELSE IF without # <<>>
    THEN [found |-> TRUE, all |-> SubSeq(t, without[1], without[13] - 1),
          m1 |-> Group(t, without, 1), d1 |-> Group(t, without, 3),
          y1 |-> <<>>,
          m2 |-> Group(t, without, 7), d2 |-> Group(t, without, 9),
          y2 |-> Group(t, without, 12)]
    ELSE NoMatch

DateRangeMatchAt(t, p) ==
    DateRangeGroups(t, PatEnds(t, p, RangeHead \o RangeYear \o RangeTail),
                       PatEnds(t, p, RangeHead \o RangeTail))

DateRangeFirst(t, hits) == IF hits = {} THEN NoMatch ELSE DateRangeMatchAt(t, MinOf(hits))

\* RE_DATE_RANGE.search(t)
DateRangeSearch(t) ==
    DateRangeFirst(t, {p \in WordStarts(t) :
                          \/ PatEnds(t, p, RangeHead \o RangeYear \o RangeTail) # <<>>
                          \/ PatEnds(t, p, RangeHead \o RangeTail) # <<>>})

StartDate(y, mo, d) == IF ValidDate(y, mo, d) THEN <<y, mo, d>> ELSE None

StartDateOf(m) ==
    IF ~m.found THEN None
    ELSE StartDate(ToInt(IF m.y1 # <<>> THEN m.y1 ELSE m.y2), MONTHS(m.m1), ToInt(m.d1))

_start_date_from_shooting_dates(s) == StartDateOf(DateRangeSearch(s))

(***************************************************************************)
(* _parse_date_range and _inclusive_days                                   *)
(***************************************************************************)
\* str(n) for n >= 0
RECURSIVE IntStr(_)
IntStr(n) ==
    IF n < 10 THEN <<DigitChars[n + 1]>> ELSE IntStr(n \div 10) \o <<DigitChars[(n % 10) + 1]>>

\* without the comma before the year
SpanText_nocomma(m1, d1, m2, d2, y) ==
    m1 \o <<" ">> \o IntStr(d1) \o <<" ", EnDash, " ">> \o m2 \o <<" ">> \o IntStr(d2)
       \o <<" ">> \o IntStr(y)

\* f"{m1} {d1} - {m2} {d2}, {ed.year}", the dash an en dash
SpanText(m1, d1, m2, d2, y) ==
    m1 \o <<" ">> \o IntStr(d1) \o <<" ", EnDash, " ">> \o m2 \o <<" ">> \o IntStr(d2)
       \o <<",", " ">> \o IntStr(y)

\* the try block on the numbers of the match, keeping the year of the start
RangeKept(m, start_year, a, d1, b, d2, y2) ==
    IF ~ValidDate(start_year, a, d1) \/ ~ValidDate(y2, b, d2) THEN <<m.all, None, None>>
    ELSE IF DateLess(<<y2, b, d2>>, <<start_year, a, d1>>) THEN <<>>
    ELSE <<SpanText(m.m1, d1, m.m2, d2, y2), <<start_year, a, d1>>, <<y2, b, d2>>>>

\* the start keeps the year of the end
RangeWrapped_sameyear(m, a, d1, b, d2, y2) ==
    IF ~ValidDate(y2 - 1, a, d1) THEN <<m.all, None, None>>
    ELSE <<SpanText(m.m1, d1, m.m2, d2, y2), <<y2, a, d1>>, <<y2, b, d2>>>>

\* 'if ed < sd: sd = date(y2 - 1, ...)': the start moves to the year before
\* the end's; a date that does not exist there raises
RangeWrapped(m, a, d1, b, d2, y2) ==
    IF ~ValidDate(y2 - 1, a, d1) THEN <<m.all, None, None>>
    ELSE <<SpanText(m.m1, d1, m.m2, d2, y2), <<y2 - 1, a, d1>>, <<y2, b, d2>>>>

RangeResult(kept, m, a, d1, b, d2, y2) ==
    IF kept = <<>> THEN RangeWrapped(m, a, d1, b, d2, y2) ELSE kept

RangeDates(m, start_year, a, d1, b, d2, y2) ==
    RangeResult(RangeKept(m, start_year, a, d1, b, d2, y2), m, a, d1, b, d2, y2)

RangeOf(m) ==
    IF ~m.found THEN <<<<>>, None, None>>
    ELSE RangeDates(m, ToInt(IF m.y1 # <<>> THEN m.y1 ELSE m.y2),
                    MONTHS(m.m1), ToInt(m.d1), MONTHS(m.m2), ToInt(m.d2), ToInt(m.y2))

\* (span_text, sd, ed)
_parse_date_range(block_text) == RangeOf(DateRangeSearch(block_text))

\* date.toordinal(): the days from 0001-01-01, that day being 1
RECURSIVE DaysBeforeMonth(_, _)
DaysBeforeMonth(y, m) == IF m = 1 THEN 0 ELSE DaysBeforeMonth(y, m - 1) + DaysInMonth(y, m - 1)

Ordinal(d) ==
    (365 * (d[1] - 1)) + ((d[1] - 1) \div 4) - ((d[1] - 1) \div 100) + ((d[1] - 1) \div 400)
        + DaysBeforeMonth(d[1], d[2]) + d[3]

\* without the "+ 1"
_inclusive_days_exclusive(sd, ed) ==
    IF sd = None \/ ed = None THEN <<>> ELSE IntStr(Ordinal(ed) - Ordinal(sd))

\* str((ed - sd).days + 1), "" when a date is missing
_inclusive_days(sd, ed) ==
    IF sd = None \/ ed = None THEN <<>> ELSE IntStr(Ordinal(ed) - Ordinal(sd) + 1)

\* \w of the re module, for the \b after the year
IsWordChar(c) == IsAlpha(c) \/ IsDigit(c) \/ c \in {"_", "U+00E9"}

\* ^(January|...|December)\s+(\d{4})\b at the start of the stripped text
_approx_start_date_from_start_month(s) ==
    LET t  == Strip(s)
        ks == {k \in 1..12 : StartsWith(t, MonthNames[k])}
    IN  IF s = <<>> \/ ks = {} THEN None
        ELSE LET k  == CHOOSE x \in ks : TRUE
                 e1 == Len(MonthNames[k]) + 1
                 e2 == RunEnd(t, e1, SpaceSet)
                 e3 == RunEnd(t, e2, DigitSet)
                 y  == ToInt(SubSeq(t, e2, e2 + 3))
             IN  IF /\ e2 > e1
                    /\ e3 - e2 = 4 /\ ~IsWordChar(At(t, e3))
                    /\ ValidDate(y, k, 1)
                 THEN <<y, k, 1>> ELSE None

(***************************************************************************)
(* region_bucket and the tables it reads                                   *)
(***************************************************************************)
US_STATES ==
    { <<"A","K">>, <<"A","L">>, <<"A","R">>, <<"A","Z">>, <<"C","A">>, 
      <<"C","O">>, <<"C","T">>, <<"D","C">>, <<"D","E">>, <<"F","L">>, 
      <<"G","A">>, <<"H","I">>, <<"I","A">>, <<"I","D">>, <<"I","L">>, 
      <<"I","N">>, <<"K","S">>, <<"K","Y">>, <<"L","A">>, <<"M","A">>, 
      <<"M","D">>, <<"M","E">>, <<"M","I">>, <<"M","N">>, <<"M","O">>, 
      <<"M","S">>, <<"M","T">>, <<"N","C">>, <<"N","D">>, <<"N","E">>, 
      <<"N","H">>, <<"N","J">>, <<"N","M">>, <<"N","V">>, <<"N","Y">>, 
      <<"O","H">>, <<"O","K">>, <<"O","R">>, <<"P","A">>, <<"R","I">>, 
      <<"S","C">>, <<"S","D">>, <<"T","N">>, <<"T","X">>, <<"U","T">>, 
      <<"V","A">>, <<"V","T">>, <<"W","A">>, <<"W","I">>, <<"W","V">>, 
      <<"W","Y">> }

\* the keys of the dict
FULL_STATE ==
    { <<"a","l","a","b","a","m","a">>, <<"a","l","a","s","k","a">>, 
      <<"a","r","i","z","o","n","a">>, 
      <<"a","r","k","a","n","s","a","s">>, 
      <<"c","a","l","i","f","o","r","n","i","a">>, 
      <<"c","o","l","o","r","a","d","o">>, 
      <<"c","o","n","n","e","c","t","i","c","u","t">>, 
      <<"d","e","l","a","w","a","r","e">>, 
      <<"d","i","s","t","r","i","c","t"," ","o","f"," ","c","o","l","u","m","b","i","a">>, 
      <<"f","l","o","r","i","d","a">>, <<"g","e","o","r","g","i","a">>, 
      <<"h","a","w","a","i","i">>, <<"i","d","a","h","o">>, 
      <<"i","l","l","i","n","o","i","s">>, 
      <<"i","n","d","i","a","n","a">>, <<"i","o","w","a">>, 
      <<"k","a","n","s","a","s">>, <<"k","e","n","t","u","c","k","y">>, 
      <<"l","o","u","i","s","i","a","n","a">>, <<"m","a","i","n","e">>, 
      <<"m","a","r","y","l","a","n","d">>, 
      <<"m","a","s","s","a","c","h","u","s","e","t","t","s">>, 
      <<"m","i","c","h","i","g","a","n">>, 
      <<"m","i","n","n","e","s","o","t","a">>, 
      <<"m","i","s","s","i","s","s","i","p","p","i">>, 
      <<"m","i","s","s","o","u","r","i">>, 
      <<"m","o","n","t","a","n","a">>, 
      <<"n","e","b","r","a","s","k","a">>, <<"n","e","v","a","d","a">>, 
      <<"n","e","w"," ","h","a","m","p","s","h","i","r","e">>, 
      <<"n","e","w"," ","j","e","r","s","e","y">>, 
      <<"n","e","w"," ","m","e","x","i","c","o">>, 
      <<"n","e","w"," ","y","o","r","k">>, 
      <<"n","o","r","t","h"," ","c","a","r","o","l","i","n","a">>, 
      <<"n","o","r","t","h"," ","d","a","k","o","t","a">>, 
      <<"o","h","i","o">>, <<"o","k","l","a","h","o","m","a">>, 
      <<"o","r","e","g","o","n">>, 
      <<"p","e","n","n","s","y","l","v","a","n","i","a">>, 
      <<"r","h","o","d","e"," ","i","s","l","a","n","d">>, 
      <<"s","o","u","t","h"," ","c","a","r","o","l","i","n","a">>, 
      <<"s","o","u","t","h"," ","d","a","k","o","t","a">>, 
      <<"t","e","n","n","e","s","s","e","e">>, <<"t","e","x","a","s">>, 
      <<"u","t","a","h">>, <<"v","e","r","m","o","n","t">>, 
      <<"v","i","r","g","i","n","i","a">>, 
      <<"w","a","s","h","i","n","g","t","o","n">>, 
      <<"w","e","s","t"," ","v","i","r","g","i","n","i","a">>, 
      <<"w","i","s","c","o","n","s","i","n">>, 
      <<"w","y","o","m","i","n","g">> }

CA_PROV ==
    { <<"A","B">>, <<"B","C">>, <<"M","B">>, <<"N","B">>, <<"N","L">>, 
      <<"N","S">>, <<"N","T">>, <<"N","U">>, <<"O","N">>, <<"P","E">>, 
      <<"Q","C">>, <<"S","K">>, <<"Y","T">> }

\* the keys of the dict
FULL_PROV ==
    { <<"a","l","b","e","r","t","a">>, 
      <<"b","r","i","t","i","s","h"," ","c","o","l","u","m","b","i","a">>, 
      <<"m","a","n","i","t","o","b","a">>, 
      <<"n","e","w"," ","b","r","u","n","s","w","i","c","k">>, 
      <<"n","e","w","f","o","u","n","d","l","a","n","d"," ","a","n","d"," ","l","a","b","r","a","d","o","r">>, 
      <<"n","o","v","a"," ","s","c","o","t","i","a">>, 
      <<"n","o","r","t","h","w","e","s","t"," ","t","e","r","r","i","t","o","r","i","e","s">>, 
      <<"n","u","n","a","v","u","t">>, <<"o","n","t","a","r","i","o">>, 
      <<"p","r","i","n","c","e"," ","e","d","w","a","r","d"," ","i","s","l","a","n","d">>, 
      <<"q","u","e","b","e","c">>, 
      <<"s","a","s","k","a","t","c","h","e","w","a","n">>, 
      <<"y","u","k","o","n">>, 
      <<"n","e","w","f","o","u","n","d","l","a","n","d">> }

AU_STATES ==
    { <<"A","C","T">>, <<"N","S","W">>, <<"N","T">>, <<"Q","L","D">>, 
      <<"S","A">>, <<"T","A","S">>, <<"V","I","C">>, <<"W","A">> }

\* the keys of the dict
FULL_AU_STATE ==
    { <<"n","e","w"," ","s","o","u","t","h"," ","w","a","l","e","s">>, 
      <<"v","i","c","t","o","r","i","a">>, 
      <<"q","u","e","e","n","s","l","a","n","d">>, 
      <<"w","e","s","t","e","r","n"," ","a","u","s","t","r","a","l","i","a">>, 
      <<"s","o","u","t","h"," ","a","u","s","t","r","a","l","i","a">>, 
      <<"t","a","s","m","a","n","i","a">>, 
      <<"a","u","s","t","r","a","l","i","a","n"," ","c","a","p","i","t","a","l"," ","t","e","r","r","i","t","o","r","y">>, 
      <<"n","o","r","t","h","e","r","n"," ","t","e","r","r","i","t","o","r","y">> }

\* the dict as a set of <<key, value>> pairs
COUNTRY_ALIASES ==
    { <<<<"u","s","a">>, <<"U","S","A">>>>,
      <<<<"u",".","s",".","a",".">>, <<"U","S","A">>>>,
      <<<<"u",".","s",".">>, <<"U","S","A">>>>,
      <<<<"u","s">>, <<"U","S","A">>>>,
      <<<<"u","n","i","t","e","d"," ","s","t","a","t","e","s">>, <<"U","S","A">>>>,
      <<<<"u","n","i","t","e","d"," ","s","t","a","t","e","s"," ","o","f"," ","a","m","e","r","i","c","a">>, <<"U","S","A">>>>,
      <<<<"a","m","e","r","i","c","a">>, <<"U","S","A">>>>,
      <<<<"c","a","n","a","d","a">>, <<"C","a","n","a","d","a">>>>,
      <<<<"c","a","n",".">>, <<"C","a","n","a","d","a">>>>,
      <<<<"c","a","n">>, <<"C","a","n","a","d","a">>>>,
      <<<<"u","n","i","t","e","d"," ","k","i","n","g","d","o","m">>, <<"U","n","i","t","e","d"," ","K","i","n","g","d","o","m">>>>,
      <<<<"u",".","k",".">>, <<"U","n","i","t","e","d"," ","K","i","n","g","d","o","m">>>>,
      <<<<"u","k">>, <<"U","n","i","t","e","d"," ","K","i","n","g","d","o","m">>>>,
      <<<<"e","n","g","l","a","n","d">>, <<"U","n","i","t","e","d"," ","K","i","n","g","d","o","m">>>>,
      <<<<"s","c","o","t","l","a","n","d">>, <<"U","n","i","t","e","d"," ","K","i","n","g","d","o","m">>>>,
      <<<<"w","a","l","e","s">>, <<"U","n","i","t","e","d"," ","K","i","n","g","d","o","m">>>>,
      <<<<"n","o","r","t","h","e","r","n"," ","i","r","e","l","a","n","d">>, <<"U","n","i","t","e","d"," ","K","i","n","g","d","o","m">>>>,
      <<<<"a","u","s","t","r","a","l","i","a">>, <<"A","u","s","t","r","a","l","i","a">>>>,
      <<<<"a","u","s">>, <<"A","u","s","t","r","a","l","i","a">>>>,
      <<<<"n","e","w"," ","z","e","a","l","a","n","d">>, <<"N","e","w"," ","Z","e","a","l","a","n","d">>>>,
      <<<<"n","z">>, <<"N","e","w"," ","Z","e","a","l","a","n","d">>>>,
      <<<<"i","r","e","l","a","n","d">>, <<"I","r","e","l","a","n","d">>>>,
      <<<<"h","u","n","g","a","r","y">>, <<"H","u","n","g","a","r","y">>>>,
      <<<<"p","o","l","a","n","d">>, <<"P","o","l","a","n","d">>>>,
      <<<<"c","z","e","c","h"," ","r","e","p","u","b","l","i","c">>, <<"C","z","e","c","h"," ","R","e","p","u","b","l","i","c">>>>,
      <<<<"c","z","e","c","h","i","a">>, <<"C","z","e","c","h"," ","R","e","p","u","b","l","i","c">>>>,
      <<<<"f","r","a","n","c","e">>, <<"F","r","a","n","c","e">>>>,
      <<<<"g","e","r","m","a","n","y">>, <<"G","e","r","m","a","n","y">>>>,
      <<<<"s","p","a","i","n">>, <<"S","p","a","i","n">>>>,
      <<<<"i","t","a","l","y">>, <<"I","t","a","l","y">>>>,
      <<<<"p","o","r","t","u","g","a","l">>, <<"P","o","r","t","u","g","a","l">>>>,
      <<<<"t","h","a","i","l","a","n","d">>, <<"T","h","a","i","l","a","n","d">>>>,
      <<<<"e","g","y","p","t">>, <<"E","g","y","p","t">>>>,
      <<<<"j","a","p","a","n">>, <<"J","a","p","a","n">>>>,
      <<<<"k","o","r","e","a">>, <<"S","o","u","t","h"," ","K","o","r","e","a">>>>,
      <<<<"s","o","u","t","h"," ","k","o","r","e","a">>, <<"S","o","u","t","h"," ","K","o","r","e","a">>>> }

EU_COUNTRIES ==
    { <<"A","u","s","t","r","i","a">>, <<"B","e","l","g","i","u","m">>, 
      <<"B","u","l","g","a","r","i","a">>, 
      <<"C","r","o","a","t","i","a">>, 
      <<"C","z","e","c","h"," ","R","e","p","u","b","l","i","c">>, 
      <<"D","e","n","m","a","r","k">>, <<"E","s","t","o","n","i","a">>, 
      <<"F","i","n","l","a","n","d">>, <<"F","r","a","n","c","e">>, 
      <<"G","e","r","m","a","n","y">>, <<"G","r","e","e","c","e">>, 
      <<"H","u","n","g","a","r","y">>, <<"I","c","e","l","a","n","d">>, 
      <<"I","r","e","l","a","n","d">>, <<"I","t","a","l","y">>, 
      <<"L","a","t","v","i","a">>, 
      <<"L","i","t","h","u","a","n","i","a">>, 
      <<"L","u","x","e","m","b","o","u","r","g">>, 
      <<"M","a","l","t","a">>, 
      <<"N","e","t","h","e","r","l","a","n","d","s">>, 
      <<"N","o","r","w","a","y">>, <<"P","o","l","a","n","d">>, 
      <<"P","o","r","t","u","g","a","l">>, 
      <<"R","o","m","a","n","i","a">>, <<"S","e","r","b","i","a">>, 
      <<"S","l","o","v","a","k","i","a">>, 
      <<"S","l","o","v","e","n","i","a">>, <<"S","p","a","i","n">>, 
      <<"S","w","e","d","e","n">>, 
      <<"S","w","i","t","z","e","r","l","a","n","d">>, 
      <<"U","n","i","t","e","d"," ","K","i","n","g","d","o","m">> }

\* the reporting buckets
b_WestCoastCanada == <<"W","e","s","t"," ","C","o","a","s","t"," ","C","a","n","a","d","a">>
b_Quebec == <<"Q","u","e","b","e","c">>
b_EastCoastCanada == <<"E","a","s","t"," ","C","o","a","s","t"," ","C","a","n","a","d","a">>
b_UnitedStates == <<"U","n","i","t","e","d"," ","S","t","a","t","e","s">>
b_IrelandHungary == <<"I","r","e","l","a","n","d","/","H","u","n","g","a","r","y">>
b_AustraliaNewZealand == <<"A","u","s","t","r","a","l","i","a","/","N","e","w"," ","Z","e","a","l","a","n","d">>
b_EuropeOther == <<"E","u","r","o","p","e","/","O","t","h","e","r">>
b_Other == <<"O","t","h","e","r">>

\* REGION_FILE_MAP.keys(), in the order of the dict
REGION_KEYS ==
    <<b_UnitedStates, b_Quebec, b_WestCoastCanada, b_EastCoastCanada, b_IrelandHungary,
      b_AustraliaNewZealand, b_EuropeOther, b_Other>>

s_USA == <<"U","S","A">>
s_Canada == <<"C","a","n","a","d","a">>
s_Australia == <<"A","u","s","t","r","a","l","i","a">>
s_UnitedStates == <<"U","n","i","t","e","d"," ","S","t","a","t","e","s">>
s_Ireland == <<"I","r","e","l","a","n","d">>
s_Hungary == <<"H","u","n","g","a","r","y">>
s_NewZealand == <<"N","e","w"," ","Z","e","a","l","a","n","d">>
s_BC == <<"B","C">>
s_QC == <<"Q","C">>

\* s.split("+")[0]
FirstOfPlus(s) ==
    LET plus == {i \in DOMAIN s : s[i] = "+"}
    IN  IF plus = {} THEN s ELSE SubSeq(s, 1, MinOf(plus) - 1)

_as_country(token) ==
    LET t == Lower(Strip(token))
        hit == {kv \in COUNTRY_ALIASES : kv[1] = t}
    IN  IF hit = {} THEN <<>> ELSE (CHOOSE kv \in hit : TRUE)[2]

\* without the Quebec branch
region_bucket_noquebec(city, region, country) ==
    LET first_region  == Upper(Strip(FirstOfPlus(region)))
        first_country == Strip(FirstOfPlus(country))
        named == IF _as_country(Lower(first_country)) # <<>>
                 THEN _as_country(Lower(first_country)) ELSE first_country
        ctry == IF named = <<>> /\ first_region # <<>>
                THEN IF first_region \in US_STATES \/ Lower(first_region) \in FULL_STATE
                     THEN s_USA
                     ELSE IF first_region \in CA_PROV \/ Lower(first_region) \in FULL_PROV
                     THEN s_Canada
                     ELSE IF first_region \in AU_STATES \/ Lower(first_region) \in FULL_AU_STATE
                     THEN s_Australia
                     ELSE named
                ELSE named
    IN  IF ctry = s_Canada
        THEN IF first_region = s_BC THEN b_WestCoastCanada
             ELSE b_EastCoastCanada
        ELSE IF ctry \in {s_USA, s_UnitedStates} THEN b_UnitedStates
        ELSE IF ctry \in {s_Ireland, s_Hungary} THEN b_IrelandHungary
        ELSE IF ctry \in {s_Australia, s_NewZealand} THEN b_AustraliaNewZealand
        ELSE IF ctry \in EU_COUNTRIES THEN b_EuropeOther
        ELSE b_Other

region_bucket(city, region, country) ==
    LET first_region  == Upper(Strip(FirstOfPlus(region)))
        first_country == Strip(FirstOfPlus(country))
        named == IF _as_country(Lower(first_country)) # <<>>
                 THEN _as_country(Lower(first_country)) ELSE first_country
        ctry == IF named = <<>> /\ first_region # <<>>
                THEN IF first_region \in US_STATES \/ Lower(first_region) \in FULL_STATE
                     THEN s_USA
                     ELSE IF first_region \in CA_PROV \/ Lower(first_region) \in FULL_PROV
                     THEN s_Canada
                     ELSE IF first_region \in AU_STATES \/ Lower(first_region) \in FULL_AU_STATE
                     THEN s_Australia
                     ELSE named
                ELSE named
    IN  IF ctry = s_Canada
        THEN IF first_region = s_BC THEN b_WestCoastCanada
             ELSE IF first_region = s_QC THEN b_Quebec
             ELSE b_EastCoastCanada
        ELSE IF ctry \in {s_USA, s_UnitedStates} THEN b_UnitedStates
        ELSE IF ctry \in {s_Ireland, s_Hungary} THEN b_IrelandHungary
        ELSE IF ctry \in {s_Australia, s_NewZealand} THEN b_AustraliaNewZealand
        ELSE IF ctry \in EU_COUNTRIES THEN b_EuropeOther
        ELSE b_Other

(***************************************************************************)
(* rapidfuzz.fuzz.token_set_ratio, as called by compare_cmd.  A score is   *)
(* the exact fraction <<num, den>> (den > 0) of the float the library      *)
(* returns: 100 - 100 * dist / lensum.                                     *)
(***************************************************************************)
ScoreGt(a, b)  == a[1] * b[2] > b[1] * a[2]
ScoreGeq(a, b) == a[1] * b[2] >= b[1] * a[2]
ScoreEq(a, b)  == a[1] * b[2] = b[1] * a[2]
ScoreMax(a, b) == IF ScoreGeq(a, b) THEN a ELSE b
Pct(n) == <<n, 1>>

\* length of the longest common subsequence of a and b.  LcsRow is the row
\* of a[1..i] from the row of a[1..i-1]; entry j + 1 is for b[1..j]: a[i] is
\* left out, or it is paired with an equal b[k], k <= j.
LcsRow(prev, ai, b) ==
    <<>> \o [j1 \in 1..(Len(b) + 1) |->
                MaxOf({prev[j1]} \cup {prev[k] + 1 : k \in {x \in 1..(j1 - 1) : b[x] = ai}})]

RECURSIVE LcsRows(_, _, _, _)
LcsRows(a, b, i, prev) ==
    IF i > Len(a) THEN prev[Len(b) + 1]
    ELSE LET row == LcsRow(prev, a[i], b)
         IN  IF Len(row) > 0 THEN LcsRows(a, b, i + 1, row) ELSE 0

Lcs(a, b) == LcsRows(a, b, 1, <<>> \o [k \in 1..(Len(b) + 1) |-> 0])

\* insertions + deletions needed to turn a into b
indel_distance(a, b) == Len(a) + Len(b) - 2 * Lcs(a, b)

norm_distance(dist, lensum) ==
    IF lensum > 0 THEN <<100 * lensum - 100 * dist, lensum>> ELSE Pct(100)

token_set_ratio(s1, s2) ==
    IF s1 = <<>> \/ s2 = <<>> THEN Pct(0)
    ELSE
    LET tokens_a  == Range(Split(s1))
        tokens_b  == Range(Split(s2))
        intersect == tokens_a \cap tokens_b
        diff_ab   == tokens_a \ tokens_b
        diff_ba   == tokens_b \ tokens_a
        diff_ab_joined == Join(Sorted(diff_ab), <<" ">>)
        diff_ba_joined == Join(Sorted(diff_ba), <<" ">>)
        ab_len    == Len(diff_ab_joined)
        ba_len    == Len(diff_ba_joined)
        sect_len  == Len(Join(Sorted(intersect), <<" ">>))
        sep       == IF sect_len # 0 THEN 1 ELSE 0
        sect_ab_len == sect_len + sep + ab_len
        sect_ba_len == sect_len + sep + ba_len
        result    == norm_distance(indel_distance(diff_ab_joined, diff_ba_joined),
                                   sect_ab_len + sect_ba_len)
        sect_ab_ratio == norm_distance(sep + ab_len, sect_len + sect_ab_len)
        sect_ba_ratio == norm_distance(sep + ba_len, sect_len + sect_ba_len)
    IN  IF tokens_a = {} \/ tokens_b = {} THEN Pct(0)
        ELSE IF intersect # {} /\ (diff_ab = {} \/ diff_ba = {}) THEN Pct(100)
        ELSE IF sect_len = 0 THEN result
        ELSE ScoreMax(result, ScoreMax(sect_ab_ratio, sect_ba_ratio))

(***************************************************************************)
(* Rows.  A row is a dict of a FullSchema CSV; the model keeps the columns *)
(* the reconciliation reads.                                               *)
(***************************************************************************)
\* the field list of _changed_fields, in its order
CompareFields == <<"Production Name", "Shooting Dates", "Start Month", "City",
                   "Province/State", "Country", "Type", "Format Label",
                   "Director/Producer", "All Locations", "Production Office",
                   "Production Company">>

RowFields == Range(CompareFields) \cup {"Description"}

s_NA == <<"N","/","A">>

\* row.get(f, "") or ""
Get(row, f) == IF f \in DOMAIN row THEN row[f] ELSE <<>>

fill_na(row) == [f \in DOMAIN row |-> IF Strip(row[f]) = <<>> THEN s_NA ELSE row[f]]

\* _changed_fields without "Production Name" in its field list
_changed_fields_unnamed(old, new) ==
    LET Differs(f) == f # "Production Name" /\ ~_equiv(Get(old, f), Get(new, f))
    IN  SelectSeq(CompareFields, Differs)

\* _changed_fields on the normalized text alone
_changed_fields_strict(old, new) ==
    LET Differs(f) == _norm_text(Get(old, f)) # _norm_text(Get(new, f))
    IN  SelectSeq(CompareFields, Differs)

_changed_fields(old, new) ==
    LET Differs(f) == ~_equiv(Get(old, f), Get(new, f))
    IN  SelectSeq(CompareFields, Differs)

(***************************************************************************)
(* The runs compare_cmd is checked on.                                     *)
(***************************************************************************)
s_none == <<"N","o","n","e">>
s_Vancouver == <<"V","a","n","c","o","u","v","e","r">>
s_vancouver_pad == <<" ","V","A","N","C","O","U","V","E","R"," "," ">>
s_Toronto == <<"T","o","r","o","n","t","o">>
t_Alpha == <<"A","l","p","h","a">>
t_AlphaLoud == <<" ","A","L","P","H","A"," ">>
t_Beta == <<"B","e","t","a">>
t_BetaV2 == <<"B","e","t","a"," ","v","2">>
t_Gamma == <<"G","a","m","m","a">>
t_Tal == <<"T","a","l">>
t_Starfall1 == <<"S","t","a","r","f","a","l","l"," ","1">>
t_Starfall2 == <<"S","t","a","r","f","a","l","l"," ","2">>

OldLabel == "PW_old"
NewLabel == "PW_new"

\* titles of the old run and of the new run: Tal scores 50 against Alpha and
\* 57.1 against Beta, Beta v2 scores 100 against Beta, Gamma scores 40 and 22.2
OldTitles == {t_Alpha, t_Beta}
NewTitles == {t_Alpha, t_BetaV2, t_Gamma, t_Tal}

FieldValues == {<<>>, s_NA, s_none, s_Vancouver, s_vancouver_pad, s_Toronto}

\* most fields a single row of the field-focused runs departs in
MaxPatched == 2

\* a row as build_cmd writes it: every blank column is "N/A"
BaseRow(title) == [f \in RowFields |-> IF f = "Production Name" THEN title ELSE s_NA]

Patched(row, D, v) == [f \in DOMAIN row |-> IF f \in D THEN v ELSE row[f]]

SeqsUpTo(S, n) == UNION {[1..k -> S] : k \in 0..n}

\* runs that differ in their titles
TitleRuns ==
    {[old |-> [i \in DOMAIN o |-> BaseRow(o[i])], new |-> [i \in DOMAIN n |-> BaseRow(n[i])]] :
        o \in SeqsUpTo(OldTitles, MaxOld), n \in SeqsUpTo(NewTitles, MaxNew)}

\* <<old title, new title>> of the field-focused runs; Starfall 2 scores 90
\* against Starfall 1
FieldTitlePairs == {<<t_Alpha, t_Alpha>>, <<t_Alpha, t_AlphaLoud>>, <<t_Beta, t_BetaV2>>,
                    <<t_Starfall1, t_Starfall2>>, <<s_NA, <<>>>>}

\* the value every field of the old row has in a field-focused run
OldValues == {<<>>, s_NA, s_Vancouver}

ValueFields == RowFields \ {"Production Name"}

\* runs of one old and one new row that differ in their field values
FieldRuns ==
    {[old |-> <<Patched(BaseRow(tp[1]), ValueFields, v)>>,
      new |-> <<Patched(Patched(BaseRow(tp[2]), ValueFields, v), D, w)>>] :
        tp \in FieldTitlePairs, v \in OldValues, w \in FieldValues,
        D \in {X \in SUBSET ValueFields : Cardinality(X) <= MaxPatched}}

CompareRuns == TitleRuns \cup FieldRuns

(***************************************************************************)
(* _changed_vs_master                                                      *)
(***************************************************************************)
_FIELDS_TO_COMPARE_AGAINST_MASTER ==
    <<"Production Name", "Shooting Dates", "Start Month", "City", "Province/State",
      "Country", "Type", "Director/Producer", "Production Company">>

\* the loop body without the 'weekly blank, master filled' skip
MasterFieldChanged_noskip(master, weekly, f) ==
    LET ov == Get(master, f)
        nv == Get(weekly, f)
    IN  IF f = "Production Name" THEN _norm_key(ov) # _norm_key(nv)
        ELSE IF f = "Shooting Dates" THEN ~_equiv_dates(ov, nv)
        ELSE IF f = "Type" THEN _norm_type(ov) # _norm_type(nv)
        ELSE IF f = "Start Month"
        THEN _start_month_from_span(Get(master, "Shooting Dates"))
               # _start_month_from_span(Get(weekly, "Shooting Dates"))
        ELSE ~_equiv(ov, nv)

\* the loop body for field f: whether f is appended to diffs.  The branches
\* for "Production Phone" and "Production Email" are never taken: neither
\* is in _FIELDS_TO_COMPARE_AGAINST_MASTER.
MasterFieldChanged(master, weekly, f) ==
    LET ov == Get(master, f)
        nv == Get(weekly, f)
    IN  IF _norm_text(nv) \in NA_TOKENS /\ _norm_text(ov) \notin NA_TOKENS THEN FALSE
        ELSE IF f = "Production Name" THEN _norm_key(ov) # _norm_key(nv)
        ELSE IF f = "Shooting Dates" THEN ~_equiv_dates(ov, nv)
        ELSE IF f = "Type" THEN _norm_type(ov) # _norm_type(nv)
        ELSE IF f = "Start Month"
        THEN _start_month_from_span(Get(master, "Shooting Dates"))
               # _start_month_from_span(Get(weekly, "Shooting Dates"))
        ELSE ~_equiv(ov, nv)

_changed_vs_master(master, weekly) ==
    LET Changed(f) == MasterFieldChanged(master, weekly, f)
    IN  SelectSeq(_FIELDS_TO_COMPARE_AGAINST_MASTER, Changed)

(***************************************************************************)
(* The runs master_compare_cmd is checked on.                              *)
(***************************************************************************)
MaxMaster == 2
MaxWeekly == 2

WeeklyLabel == "PW_weekly"

s_Span1 == <<"M","a","r","c","h"," ","3"," ","-"," ","M","a","y"," ","1","5",","," ","2","0","2","6">>
s_Span1Short == <<"M","a","r"," ","3"," ","U+2013"," ","M","a","y"," ","1","5"," ","2","0","2","6">>
s_Span2 == <<"A","p","r","i","l"," ","6"," ","-"," ","M","a","y"," ","1","5",","," ","2","0","2","6">>
s_SpanWrap == <<"N","o","v","e","m","b","e","r"," ","3"," ","-"," ","M","a","r","c","h"," ","1","5",","," ","2","0","2","6">>
s_March2026 == <<"M","a","r","c","h"," ","2","0","2","6">>
s_April2026 == <<"A","p","r","i","l"," ","2","0","2","6">>
s_Feature == <<"F","e","a","t","u","r","e">>
s_Film == <<"F","i","l","m">>
s_Series == <<"S","e","r","i","e","s">>
s_Victoria == <<"V","i","c","t","o","r","i","a">>
s_ON == <<"O","N">>
s_Director == <<"D","i","r","."," ","J","a","n","e"," ","D","o","e">>
s_Logline == <<"A"," ","h","e","i","s","t",".">>
t_AlphaAka == <<"A","l","p","h","a"," ","(","A","K","A",":"," ","F","o","o",")">>
t_Delta == <<"D","e","l","t","a">>

\* the weekly CSV has the columns of SCHEMA; the master rows have the
\* canonical columns of the master sheet
WeeklyFields == RowFields \cup {"If It Was Pushed"}
MasterFields == Range(_FIELDS_TO_COMPARE_AGAINST_MASTER)

WeeklyBase(title) == [f \in WeeklyFields |-> IF f = "Production Name" THEN title ELSE s_NA]
MasterBase(title) == [f \in MasterFields |-> IF f = "Production Name" THEN title ELSE s_NA]

With(row, f, v) == [g \in DOMAIN row |-> IF g = f THEN v ELSE row[g]]

\* the values each compared field is tried with
ValuesOf(f) ==
    IF f = "Shooting Dates" THEN {<<>>, s_NA, s_Span1, s_Span1Short, s_Span2, s_SpanWrap}
    ELSE IF f = "Start Month" THEN {<<>>, s_NA, s_March2026, s_April2026}
    ELSE IF f = "Type" THEN {<<>>, s_NA, s_Feature, s_Film, s_Series}
    ELSE {<<>>, s_NA, s_Vancouver, s_vancouver_pad, s_Toronto}

MasterTitlePairs == {<<t_Alpha, t_Alpha>>, <<t_AlphaAka, t_AlphaLoud>>}

\* one master record and its weekly counterpart, one field varied
MasterFieldRuns ==
    { [master |-> <<With(MasterBase(tp[1]), f, ov)>>,
       weekly |-> <<With(WeeklyBase(tp[2]), f, nv)>>,
       region |-> <<>>] :
        tp \in MasterTitlePairs,
        <<f, ov, nv>> \in UNION {{<<g, a, b>> : a \in ValuesOf(g), b \in ValuesOf(g)} :
                                    g \in MasterFields \ {"Production Name"}} }

\* one master record and its weekly counterpart: the dates of both sides
\* varied, with or without a change of City next to them
MasterDateRuns ==
    { [master |-> <<With(With(With(MasterBase(t_Alpha), "Shooting Dates", sd[1]),
                              "Start Month", sm[1]), "City", s_Vancouver)>>,
       weekly |-> <<With(With(With(WeeklyBase(t_Alpha), "Shooting Dates", sd[2]),
                              "Start Month", sm[2]), "City", city)>>,
       region |-> <<>>] :
        sd \in ValuesOf("Shooting Dates") \X ValuesOf("Shooting Dates"),
        sm \in ValuesOf("Start Month") \X ValuesOf("Start Month"),
        city \in {s_Vancouver, s_Toronto} }

\* a place: City, Province/State, Country
Placed(row, city, prov, country) ==
    With(With(With(row, "City", city), "Province/State", prov), "Country", country)

\* the master sheet of these runs has a Region column
MasterPool ==
    LET InRegion(row, label) == [f \in DOMAIN row \cup {"Region"} |->
                                    IF f = "Region" THEN label ELSE row[f]]
    IN  { InRegion(Placed(MasterBase(t_Alpha), s_Vancouver, s_BC, s_Canada), b_WestCoastCanada),
          InRegion(Placed(MasterBase(t_Delta), s_Victoria, s_BC, s_Canada), b_WestCoastCanada),
          InRegion(Placed(MasterBase(t_Beta), s_Toronto, s_ON, s_Canada), <<>>) }

\* two weekly records share the key "alpha": a sparse one and a complete one
WeeklyPool ==
    { Placed(WeeklyBase(t_Alpha), s_NA, s_BC, s_NA),
      With(With(With(Placed(WeeklyBase(t_AlphaAka), s_Vancouver, s_BC, s_Canada),
                     "Shooting Dates", s_Span1), "Description", s_Logline),
           "Director/Producer", s_Director),
      Placed(WeeklyBase(t_Gamma), s_Vancouver, s_BC, s_NA),
      Placed(WeeklyBase(t_Beta), s_Toronto, s_ON, s_Canada) }

MasterListRuns ==
    { [master |-> m, weekly |-> w, region |-> rg] :
        m \in SeqsUpTo(MasterPool, MaxMaster),
        w \in SeqsUpTo(WeeklyPool, MaxWeekly),
        rg \in {<<>>, b_WestCoastCanada, b_EastCoastCanada} }

\* the baseline file of the weekly run folder: it lists the titles of all
\* blocks of the issue, the filtered ones included, and is read on its own
bf_Empty == <<>>
bf_Alpha == <<"A","l","p","h","a">>
bf_Snowed == <<"S","n","o","w","e","d"," ","I","n","n","\n","A","l","p","h","a">>
bf_Else == <<"S","o","m","e","t","h","i","n","g"," ","E","l","s","e">>
bf_Mixed == <<"A","l","p","h","a","\n","\n"," ","B","e","t","a"," ","\n","G","a","m","m","a","\n","A","L","P","H","A","\n">>

BaselineFiles == {bf_Empty, bf_Alpha, bf_Snowed, bf_Else, bf_Mixed}

\* the runs of the batch: the master path is one CSV file, used for every
\* region; two of the weekly records start later than their master records
BatchMaster ==
    <<With(Placed(MasterBase(t_Alpha), s_Vancouver, s_BC, s_Canada), "Shooting Dates", s_Span1),
      With(Placed(MasterBase(t_Beta), s_Toronto, s_ON, s_Canada), "Shooting Dates", s_Span1)>>

BatchWeeklyPool ==
    { With(Placed(WeeklyBase(t_Alpha), s_Vancouver, s_BC, s_Canada), "Shooting Dates", s_Span2),
      With(Placed(WeeklyBase(t_Beta), s_Toronto, s_ON, s_Canada), "Shooting Dates", s_Span2),
      Placed(WeeklyBase(t_Gamma), s_NA, s_NA, s_NA) }

MasterBatchRuns ==
    { [master |-> m, weekly |-> w, region |-> <<>>] :
        m \in {<<>>, BatchMaster}, w \in SeqsUpTo(BatchWeeklyPool, MaxWeekly) }

RunOn(run, text, is_batch) ==
    [master |-> run.master, weekly |-> run.weekly, region |-> run.region,
     baseline |-> text, batch |-> is_batch]

MasterRuns ==
    {RunOn(r, t, FALSE) : r \in MasterFieldRuns \cup MasterDateRuns, t \in {bf_Alpha, bf_Snowed}}
    \cup {RunOn(r, t, FALSE) : r \in MasterListRuns, t \in BaselineFiles}
    \cup {RunOn(r, t, TRUE) : r \in MasterBatchRuns, t \in {bf_Snowed, bf_Else, bf_Mixed}}

(***************************************************************************)
(* extract_text_structured, the layout segmenter.  A visual block of a     *)
(* page is [x0, y0, x1, lines, max_size, is_bold]: its left, top and right *)
(* edges, its non-blank lines, its largest font size and whether one of    *)
(* its fonts is bold.                                                      *)
(***************************************************************************)
TITLE_PREFIX == <<"#", "#", "#", " ">>

\* the word tok, letters in either case, stands at index i between two \b
WordAt(s, i, tok) ==
    /\ i + Len(tok) - 1 <= Len(s)
    /\ Lower(SubSeq(s, i, i + Len(tok) - 1)) = tok
    /\ ~IsWordChar(At(s, i - 1))
    /\ ~IsWordChar(At(s, i + Len(tok)))

\* \b(Series|Feature(?:\s*Film)?|Limited|Mini(?:series)?|Pilot|Short|
\* Docu(?:series|mentary)?)\b
TitleTypes ==
    { <<"s","e","r","i","e","s">>, <<"f","e","a","t","u","r","e">>,
      <<"f","e","a","t","u","r","e","f","i","l","m">>, <<"l","i","m","i","t","e","d">>,
      <<"m","i","n","i">>, <<"m","i","n","i","s","e","r","i","e","s">>,
      <<"p","i","l","o","t">>, <<"s","h","o","r","t">>, <<"d","o","c","u">>,
      <<"d","o","c","u","s","e","r","i","e","s">>,
      <<"d","o","c","u","m","e","n","t","a","r","y">> }

\* \b(Series|Feature(?:\s*Film)?|Telefilm|Pilot|Short|Docu)\b
HeadlineTypes ==
    { <<"s","e","r","i","e","s">>, <<"f","e","a","t","u","r","e">>,
      <<"f","e","a","t","u","r","e","f","i","l","m">>, <<"t","e","l","e","f","i","l","m">>,
      <<"p","i","l","o","t">>, <<"s","h","o","r","t">>, <<"d","o","c","u">> }

\* the first of TITLE_PATTERNS, the opening quote at index o: a quoted title
\* of at least one character, a closing quote followed by whitespace, and a
\* type word somewhere after it
QuotedTitleAt(s, o) ==
    /\ At(s, o) \in {"U+201C", "\""}
    /\ \E q \in (o + 2)..Len(s) :
          /\ s[q] \in {"U+201D", "\""}
          /\ IsSpace(At(s, q + 1))
          /\ \E i \in (q + 2)..Len(s) : \E tok \in TitleTypes : WordAt(s, i, tok)

\* ^\s*(?:###\s*)? of the first pattern, on a stripped line
QuotedTitle(s) ==
    QuotedTitleAt(s, IF StartsWith(s, <<"#", "#", "#">>) THEN RunEnd(s, 4, SpaceSet) ELSE 1)

\* the second of TITLE_PATTERNS: a letter or digit, 1 to 120 characters that
\* are not letters, a type word
Headline(s) ==
    /\ IsAlpha(At(s, 1)) \/ IsDigit(At(s, 1))
    /\ \E i \in 3..Min(Len(s), 122) :
          /\ \A j \in 2..(i - 1) : ~IsAlpha(s[j])
          /\ \E tok \in HeadlineTypes : WordAt(s, i, tok)

\* upper_ratio >= 0.5, the ratio being 0.0 for a line without letters
MostlyUpper(s) ==
    /\ \E i \in DOMAIN s : IsAlpha(s[i]) \/ s[i] = "U+00E9"
    /\ 2 * Cardinality({i \in DOMAIN s : IsUpper(s[i])})
         >= Cardinality({i \in DOMAIN s : IsAlpha(s[i]) \/ s[i] = "U+00E9"})

TitleOf(s, max_size, is_bold, size_thr) ==
    /\ s # <<>>
    /\ \/ QuotedTitle(s)
       \/ Headline(s)
       \/ max_size >= size_thr /\ (is_bold \/ MostlyUpper(s)) /\ Len(s) <= 120

looks_like_title(line, max_size, is_bold, size_thr) ==
    TitleOf(Strip(line), max_size, is_bold, size_thr)

\* ^\s*#\d+\s+\d{2}/\d{2}\s*$
FolioPattern ==
    << Step(SpaceSet, 0, -1), Step({"#"}, 1, 1), Step(DigitSet, 1, -1), Step(SpaceSet, 1, -1),
       Step(DigitSet, 2, 2), Step({"/"}, 1, 1), Step(DigitSet, 2, 2), Step(SpaceSet, 0, -1) >>

\* ^\s*issue\s+\w+ , letters in either case
IssueLine(t) ==
    /\ Lower(SubSeq(t, 1, Min(5, Len(t)))) = <<"i", "s", "s", "u", "e">>
    /\ IsSpace(At(t, 6))
    /\ IsWordChar(At(t, RunEnd(t, 6, SpaceSet)))

\* whether the pattern matched at index 1 ends at the end of the text
EndsAtEnd(t, ends) == ends # <<>> /\ ends[Len(ends)] = Len(t) + 1

\* any(p.search(text) for p in HEADER_KILL): every pattern is anchored at the
\* start of the text
HEADER_KILL(text) ==
    \/ Lower(SubSeq(LStrip(text), 1, Min(13, Len(LStrip(text)))))
          = <<"l","a","s","t"," ","u","p","d","a","t","e","d",":">>
    \/ IssueLine(LStrip(text))
    \/ EndsAtEnd(text, PatEnds(text, 1, FolioPattern))

\* bl["text"]: the lines of the block joined, stripped
BlockText(b) == Strip(Join(b.lines, <<"\n">>))

\* str.splitlines(), the line break being "\n"
SplitLines(t) ==
    LET IsBreak(i) == t[i] = "\n"
        breaks == SelectSeq(Indices(t), IsBreak)
        n == IF t # <<>> /\ t[Len(t)] = "\n" THEN Len(breaks) ELSE Len(breaks) + 1
    IN  IF t = <<>> THEN <<>>
        ELSE [k \in 1..n |-> SubSeq(t, IF k = 1 THEN 1 ELSE breaks[k - 1] + 1,
                                       IF k > Len(breaks) THEN Len(t) ELSE breaks[k] - 1)]

col_margin == 12

\* with a block across the midline put in column 1
col_idx_right(bl, columns, width) ==
    IF columns = "1" THEN 0
    ELSE IF 2 * bl.x1 < width - 2 * col_margin THEN 0
    ELSE 1

\* col_idx, the midline being width / 2
col_idx(bl, columns, width) ==
    IF columns = "1" THEN 0
    ELSE IF columns = "2" THEN (IF 2 * bl.x1 < width - 2 * col_margin THEN 0 ELSE 1)
    ELSE IF 2 * bl.x1 < width - 2 * col_margin THEN 0
    ELSE IF 2 * bl.x0 > width + 2 * col_margin THEN 1
    ELSE 0

\* the sort key (col_idx(bl), bl["bbox"][1], bl["bbox"][0])
SortKey(bl, columns, width) == <<col_idx(bl, columns, width), bl.y0, bl.x0>>

\* a < b for the keys
KeyLess(a, b) ==
    \/ a[1] < b[1]
    \/ a[1] = b[1] /\ a[2] < b[2]
    \/ a[1] = b[1] /\ a[2] = b[2] /\ a[3] < b[3]

\* the place of blocks[i] after list.sort: the sort is stable
RankOf(keys, i) ==
    1 + Cardinality({j \in DOMAIN keys : KeyLess(keys[j], keys[i]) \/ (keys[j] = keys[i] /\ j < i)})

Ranked(blocks, keys) ==
    [k \in DOMAIN blocks |-> blocks[CHOOSE i \in DOMAIN blocks : RankOf(keys, i) = k]]

\* blocks.sort(key=...)
SortBlocks(blocks, columns, width) ==
    Ranked(blocks, [i \in DOMAIN blocks |-> SortKey(blocks[i], columns, width)])

\* sizes_sorted[q] with q = max(0, int(0.85 * (n - 1))), 0 for a page
\* without blocks
size_thr(blocks) ==
    IF blocks = <<>> THEN 0
    ELSE CHOOSE v \in {blocks[i].max_size : i \in DOMAIN blocks} :
           /\ Cardinality({i \in DOMAIN blocks : blocks[i].max_size < v})
                 <= (85 * (Len(blocks) - 1)) \div 100
           /\ Cardinality({i \in DOMAIN blocks : blocks[i].max_size <= v})
                 > (85 * (Len(blocks) - 1)) \div 100

\* the stripped non-blank lines of a block with the font data of the block;
\* a block that HEADER_KILL matches gives none
LinesOfBlock(b) ==
    LET NonBlank(l) == Strip(l) # <<>>
        kept == SelectSeq(SplitLines(BlockText(b)), NonBlank)
    IN  IF HEADER_KILL(BlockText(b)) THEN <<>>
        ELSE [k \in DOMAIN kept |->
                 [line |-> Strip(kept[k]), max_size |-> b.max_size, is_bold |-> b.is_bold]]

\* the lines of the page in the order of the two loops
RECURSIVE LinesOfBlocks(_)
LinesOfBlocks(blocks) ==
    IF blocks = <<>> THEN <<>> ELSE LinesOfBlock(Head(blocks)) \o LinesOfBlocks(Tail(blocks))

\* re.sub(r'\n{3,}', '\n\n', t)
SquashBreaks(t) ==
    LET Kept(i) == ~(t[i] = "\n" /\ i > 2 /\ t[i - 1] = "\n" /\ t[i - 2] = "\n")
        kept == SelectSeq(Indices(t), Kept)
    IN  <<>> \o [k \in DOMAIN kept |-> t[kept[k]]]

\* the production being collected is closed: its text joins all_prods
\* unless it is empty
Closed(text, prods) == IF text # <<>> THEN Append(prods, text) ELSE prods

CloseProd(cur, prods) ==
    IF cur # <<>> THEN Closed(SquashBreaks(Strip(Join(cur, <<"\n">>))), prods) ELSE prods

\* one pass of the line loop; st is [cur, prods]
FeedLine(st, it, thr) ==
    IF looks_like_title(it.line, it.max_size, it.is_bold, thr)
    THEN [cur |-> <<TITLE_PREFIX \o it.line>>, prods |-> CloseProd(st.cur, st.prods)]
    ELSE [cur |-> Append(st.cur, it.line), prods |-> st.prods]

RECURSIVE FeedLines(_, _, _)
FeedLines(st, items, thr) ==
    IF items = <<>> THEN st ELSE FeedLines(FeedLine(st, Head(items), thr), Tail(items), thr)

\* without the break at the page boundary
PageBreak_none(st) == st

\* the production break forced at the page boundary
PageBreak(st) == [cur |-> <<>>, prods |-> CloseProd(st.cur, st.prods)]

\* the body of 'for page in doc'
FeedPage(st, blocks, columns, width) ==
    PageBreak(FeedLines(st, LinesOfBlocks(SortBlocks(blocks, columns, width)), size_thr(blocks)))

\* what a block adds to page_dump_lines: its lines stripped, an empty
\* entry for a blank line; a block that HEADER_KILL matches adds nothing
DumpLinesOfBlock(b) ==
    IF HEADER_KILL(BlockText(b)) THEN <<>>
    ELSE [k \in DOMAIN SplitLines(BlockText(b)) |-> Strip(SplitLines(BlockText(b))[k])]

RECURSIVE DumpLinesOfBlocks(_)
DumpLinesOfBlocks(blocks) ==
    IF blocks = <<>> THEN <<>>
    ELSE DumpLinesOfBlock(Head(blocks)) \o DumpLinesOfBlocks(Tail(blocks))

\* the per-page dump: the entries of the page, a blank line between them
PageDump(blocks, columns, width) ==
    Join(DumpLinesOfBlocks(SortBlocks(blocks, columns, width)), <<"\n", "\n">>)

PROD_BREAK ==
    <<"-","-","-","-","-"," ","P","R","O","D","U","C","T","I","O","N"," ","B","R","E","A","K"," ",
      "-","-","-","-","-">>

(***************************************************************************)
(* load_blocks, _parse_block_to_row and build_cmd.  A block is the text of *)
(* one production, its lines separated by "\n".                            *)
(***************************************************************************)
\* the indices where sub begins in s
Occurrences(s, sub) ==
    {i \in 1..(Len(s) - Len(sub) + 1) : SubSeq(s, i, i + Len(sub) - 1) = sub}

\* sub in s
Contains(s, sub) == Occurrences(s, sub) # {}

\* s.split(sep)
RECURSIVE SplitBy(_, _)
SplitBy(s, sep) ==
    IF ~Contains(s, sep) THEN <<s>>
    ELSE <<SubSeq(s, 1, MinOf(Occurrences(s, sep)) - 1)>>
            \o SplitBy(SubSeq(s, MinOf(Occurrences(s, sep)) + Len(sep), Len(s)), sep)

\* [ln for ln in text.splitlines() if ln.strip()]
NonBlankLines(text) ==
    LET NonBlank(l) == Strip(l) # <<>>
    IN  SelectSeq(SplitLines(text), NonBlank)

\* the line without its "### " and the whitespace after it
AfterPrefix(s) == IF StartsWith(s, TITLE_PREFIX) THEN LStrip(SubSeq(s, 5, Len(s))) ELSE s

\* ^[“"]\s*([^”"]+?)\s*[”"] on s: the index of the closing quote, 0 when
\* the pattern does not match
TitleQuoteEnd(s) ==
    IF At(s, 1) \in {"U+201C", "\""} /\ At(s, 2) \notin {"U+201D", "\"", ""}
    THEN RunEnd(s, 2, Range(s) \ {"U+201D", "\""})
    ELSE 0

\* the quoted title, else the text before the first double space
TitleFrom(s, q) ==
    IF q >= 3 /\ q <= Len(s) THEN Strip(SubSeq(s, 2, q - 1))
    ELSE Strip(SplitBy(s, <<" ", " ">>)[1])

_quoted_title_from_title_line(line) ==
    TitleFrom(AfterPrefix(Strip(line)), TitleQuoteEnd(AfterPrefix(Strip(line))))

s_FeatureFilm == <<"F","e","a","t","u","r","e"," ","F","i","l","m">>

s_Television == <<"T","e","l","e","v","i","s","i","o","n">>

\* "feature film" in s or re.search(r"\bfeature\b", s), s the lowered line
_type_from_title_line(line) ==
    IF \/ Contains(Lower(line), Lower(s_FeatureFilm))
       \/ \E i \in DOMAIN line : WordAt(line, i, <<"f","e","a","t","u","r","e">>)
    THEN s_FeatureFilm ELSE s_Television

EXCLUDE_KEYWORDS ==
    << <<"t","e","l","e","f","i","l","m">>, <<"h","a","l","l","m","a","r","k">>, <<"g","a","f">>,
       <<"g","r","e","a","t"," ","a","m","e","r","i","c","a","n"," ","f","a","m","i","l","y">> >>

(***************************************************************************)
(* _extract_alt_titles: the aliases of a block, "(AKA: Foo, W/T: Bar)".    *)
(***************************************************************************)
WtEnd(text, j) ==
    IF LowerChar(At(text, j)) = "t" /\ ~IsWordChar(At(text, j + 1)) THEN j + 1 ELSE 0

\* \b(?:aka|w[./-]?\s*t)\b at i: the index after the marker, 0 without
AliasMarkerEnd(text, i) ==
    IF IsWordChar(At(text, i - 1)) THEN 0
    ELSE IF Lower(SubSeq(text, i, Min(i + 2, Len(text)))) = <<"a", "k", "a">>
    THEN (IF IsWordChar(At(text, i + 3)) THEN 0 ELSE i + 3)
    ELSE IF LowerChar(At(text, i)) = "w"
    THEN WtEnd(text, RunEnd(text, IF At(text, i + 1) \in {".", "/", "-"} THEN i + 2 ELSE i + 1,
                            SpaceSet))
    ELSE 0

SkipEquals(text, a) == IF At(text, a) \in {":", "="} THEN a + 1 ELSE a

\* \s*[:=]?\s* from m, every part taking all it can
AliasPrefixEnd(text, m) == RunEnd(text, SkipEquals(text, RunEnd(text, m, SpaceSet)), SpaceSet)

\* ["“”'‘’]
QuoteChars == {"\"", "U+201C", "U+201D", "'", "U+2018", "U+2019"}

\* [^"”'’\r\n]
InQuoted(c) == c \notin {"", "\"", "U+201D", "'", "U+2019", "\r", "\n"}

\* ([^"”'’\r\n]+?)\s*["“”'‘’] from g: the ends k of a group g..k-1 after
\* which white space and a quote follow
QuotedGroupEnds(text, g) ==
    {k \in (g + 1)..(Len(text) + 1) :
        /\ \A j \in g..(k - 1) : InQuoted(text[j])
        /\ At(text, RunEnd(text, k, SpaceSet)) \in QuoteChars}

\* the starts of the group after the opening quote at q: the white space
\* after the quote is given back as long as no group is found
QuotedGroupStarts(text, q) ==
    {g \in (q + 1)..RunEnd(text, q + 1, SpaceSet) : QuotedGroupEnds(text, g) # {}}

NoAlias == [found |-> FALSE, from |-> 0, to |-> 0, end |-> 0]

\* the group is lazy: the first end
QuotedGroup(text, g) ==
    [found |-> TRUE, from |-> g, to |-> MinOf(QuotedGroupEnds(text, g)) - 1,
     end |-> RunEnd(text, MinOf(QuotedGroupEnds(text, g)), SpaceSet) + 1]

QuotedAfter(text, q) ==
    IF At(text, q) \in QuoteChars /\ QuotedGroupStarts(text, q) # {}
    THEN QuotedGroup(text, MaxOf(QuotedGroupStarts(text, q)))
    ELSE NoAlias

\* QUOTED tried at i
QuotedAt(text, i) ==
    IF AliasMarkerEnd(text, i) = 0 THEN NoAlias
    ELSE QuotedAfter(text, AliasPrefixEnd(text, AliasMarkerEnd(text, i)))

\* [^\)\]\|;,\r\n]
InUnquoted(c) == c \notin {"", ")", "]", "|", ";", ",", "\r", "\n"}

UnquotedEnd(text, s) ==
    MinOf({j \in s..(Len(text) + 1) : j = Len(text) + 1 \/ ~InUnquoted(text[j])})

\* the places the group can start at: after 'as' and its white space, which
\* is given back down to one character, and from the end of the prefix down
\* to the end of the marker
UnquotedStarts(text, m, b) ==
    (IF Lower(SubSeq(text, b, Min(b + 1, Len(text)))) = <<"a", "s">> /\ IsSpace(At(text, b + 2))
     THEN (b + 3)..RunEnd(text, b + 2, SpaceSet) ELSE {})
    \cup (m..b)

\* {2,}: the starts from which two characters or more are taken
UnquotedGood(text, m, b) ==
    {s \in UnquotedStarts(text, m, b) : UnquotedEnd(text, s) - s >= 2}

UnquotedGroup(text, s) ==
    [found |-> TRUE, from |-> s, to |-> UnquotedEnd(text, s) - 1, end |-> UnquotedEnd(text, s)]

UnquotedAfter(text, m) ==
    IF UnquotedGood(text, m, AliasPrefixEnd(text, m)) # {}
    THEN UnquotedGroup(text, MaxOf(UnquotedGood(text, m, AliasPrefixEnd(text, m))))
    ELSE NoAlias

\* UNQUOTED tried at i
UnquotedAt(text, i) ==
    IF AliasMarkerEnd(text, i) = 0 THEN NoAlias ELSE UnquotedAfter(text, AliasMarkerEnd(text, i))

\* re.sub(r'[\s\)\]\|;,—–-]+$', '', alias).strip()
RECURSIVE TrimCruft(_)
TrimCruft(alias) ==
    IF alias # <<>> /\ alias[Len(alias)] \in SpaceSet \cup {")", "]", "|", ";", ",", EmDash, EnDash, "-"}
    THEN TrimCruft(SubSeq(alias, 1, Len(alias) - 1))
    ELSE Strip(alias)

\* label.lower().startswith("w"): the label is the first word of the match
AliasTag(text, i) ==
    IF LowerChar(text[i]) = "w" THEN <<"W", "/", "T">> ELSE <<"A", "K", "A">>

QuotedStarts(text, from) == {i \in from..Len(text) : QuotedAt(text, i).found}

\* QUOTED.finditer from index from on: (label, alias) of every match
RECURSIVE QuotedFound(_, _)
QuotedFoundAt(text, i, m) ==
    << <<AliasTag(text, i), Strip(SubSeq(text, m.from, m.to))>> >> \o QuotedFound(text, m.end)

QuotedFound(text, from) ==
    IF QuotedStarts(text, from) = {} THEN <<>>
    ELSE QuotedFoundAt(text, MinOf(QuotedStarts(text, from)),
                       QuotedAt(text, MinOf(QuotedStarts(text, from))))

UnquotedMatchStarts(text, from) == {i \in from..Len(text) : UnquotedAt(text, i).found}

\* UNQUOTED.finditer
RECURSIVE UnquotedFound(_, _)
UnquotedFoundAt(text, i, m) ==
    << <<AliasTag(text, i), TrimCruft(Strip(SubSeq(text, m.from, m.to)))>> >>
       \o UnquotedFound(text, m.end)

UnquotedFound(text, from) ==
    IF UnquotedMatchStarts(text, from) = {} THEN <<>>
    ELSE UnquotedFoundAt(text, MinOf(UnquotedMatchStarts(text, from)),
                         UnquotedAt(text, MinOf(UnquotedMatchStarts(text, from))))

\* re.sub(r'[“”"\'‘’]', '', alias).strip()
AliasClean(alias) ==
    LET Kept(c) == c \notin QuoteChars
    IN  Strip(SelectSeq(alias, Kept))

\* the loop over found: an alias that is empty or was seen is skipped
RECURSIVE PrettyAliases(_, _, _)
PrettyNext(found, k, seen, tag, clean) ==
    IF clean = <<>> \/ <<tag, Lower(clean)>> \in seen THEN PrettyAliases(found, k + 1, seen)
    ELSE <<tag \o <<":", " ">> \o clean>>
           \o PrettyAliases(found, k + 1, seen \cup {<<tag, Lower(clean)>>})

PrettyAliases(found, k, seen) ==
    IF k > Len(found) THEN <<>>
    ELSE PrettyNext(found, k, seen, found[k][1], AliasClean(found[k][2]))

AltTitles(pretty) ==
    IF pretty = <<>> THEN <<>> ELSE <<"(">> \o Join(pretty, <<",", " ">>) \o <<")">>

_extract_alt_titles(text) ==
    AltTitles(PrettyAliases(QuotedFound(text, 1) \o UnquotedFound(text, 1), 1, {}))

\* 'if alt_title_str: title = f"{title} {alt_title_str}"'
TitleWithAliases(title, alt_title_str) ==
    IF alt_title_str # <<>> THEN title \o <<" ">> \o alt_title_str ELSE title

\* the stripped non-blank lines of the block
BlockLines(block_text) ==
    [k \in DOMAIN NonBlankLines(block_text) |-> Strip(NonBlankLines(block_text)[k])]

FirstLine(lines) == IF lines = <<>> THEN <<>> ELSE lines[1]

\* the columns of the row that the model follows; the others are read from
\* the body of the block and take no part in the properties checked here
BuildFields ==
    {"Production Name", "Shooting Dates", "Computed Production Length", "Description", "Type",
     "If It Was Pushed", "Notes", "Category"}

RowOfBlock(title, first, lines, range) ==
    [f \in BuildFields |->
        CASE f = "Production Name" -> title
          [] f = "Shooting Dates" -> range[1]
          [] f = "Computed Production Length" -> _inclusive_days(range[2], range[3])
          [] f = "Description" -> Strip(Join(SubSeq(lines, 2, Len(lines)), <<"\n">>))
          [] f = "Type" -> _type_from_title_line(first)
          [] OTHER -> <<>>]

\* with the keywords looked for in the text as written
ParsedBlock_asis(block_text, lines, title) ==
    [row |-> RowOfBlock(title, FirstLine(lines), lines, _parse_date_range(block_text)),
     title |-> title,
     is_excluded |-> \E k \in DOMAIN EXCLUDE_KEYWORDS :
                        Contains(block_text, EXCLUDE_KEYWORDS[k])]

ParsedBlock(block_text, lines, title) ==
    [row |-> RowOfBlock(title, FirstLine(lines), lines, _parse_date_range(block_text)),
     title |-> title,
     is_excluded |-> \E k \in DOMAIN EXCLUDE_KEYWORDS :
                        Contains(Lower(block_text), EXCLUDE_KEYWORDS[k])]

\* (row, title, is_excluded): the title is the quoted title with the aliases of the block after it
_parse_block_to_row(block_text) ==
    ParsedBlock(block_text, BlockLines(block_text),
                TitleWithAliases(_quoted_title_from_title_line(FirstLine(BlockLines(block_text))),
                                 _extract_alt_titles(block_text)))

\* the chunks of the structured file that open with a title line
StructuredBlock(lines) ==
    IF lines # <<>> /\ (\/ StartsWith(LStrip(lines[1]), TITLE_PREFIX)
                        \/ At(LStrip(lines[1]), 1) \in {"U+201C", "\""})
    THEN <<Join(lines, <<"\n">>)>> ELSE <<>>

RECURSIVE StructuredBlocks(_)
StructuredBlocks(chunks) ==
    IF chunks = <<>> THEN <<>>
    ELSE StructuredBlock(NonBlankLines(Strip(Head(chunks)))) \o StructuredBlocks(Tail(chunks))

_load_from_structured(txt) == StructuredBlocks(SplitBy(txt, PROD_BREAK))

\* the files of the folder in name order, the blank ones left out
_load_from_productions_folder(files) ==
    LET Filled(t) == Strip(t) # <<>>
        kept == SelectSeq(files, Filled)
    IN  [k \in DOMAIN kept |-> Strip(kept[k])]

\* the titles of load_blocks
TitlesOfBlocks(blocks) ==
    [k \in DOMAIN blocks |-> _quoted_title_from_title_line(FirstLine(NonBlankLines(blocks[k])))]

(***************************************************************************)
(* _status_and_location_from_lines.                                        *)
(***************************************************************************)
s_STATUS == <<"S","T","A","T","U","S">>

s_LOCATION == <<"L","O","C","A","T","I","O","N">>

\* s.split(":", 1)[1].strip(), for s with a colon
AfterColon(s) == Strip(SubSeq(s, MinOf(Occurrences(s, <<":">>)) + 1, Len(s)))

\* s.strip(" :-\t")
RECURSIVE StripMarks(_)
StripMarks(s) ==
    IF s # <<>> /\ s[1] \in {" ", ":", "-", "\t"} THEN StripMarks(Tail(s))
    ELSE IF s # <<>> /\ s[Len(s)] \in {" ", ":", "-", "\t"} THEN StripMarks(SubSeq(s, 1, Len(s) - 1))
    ELSE s

\* the value of a STATUS text: after the colon, else after the word
StatusValue(part) ==
    IF Contains(part, <<":">>) THEN AfterColon(part)
    ELSE StripMarks(SubSeq(part, Len(s_STATUS) + 1, Len(part)))

\* loc_part.split(None, 1): what follows the first word, "" without a second
SecondWord(s) ==
    Strip(SubSeq(s, RunEnd(s, RunEnd(s, 1, SpaceSet), Range(s) \ SpaceSet), Len(s)))

\* up.find("LOCATION"), counted from 0
LocPos(up) == MinOf(Occurrences(up, s_LOCATION)) - 1

\* the location of a line with STATUS and LOCATION
SameLineLocation(loc_part) ==
    IF Contains(loc_part, <<":">>) THEN AfterColon(loc_part) ELSE SecondWord(loc_part)

\* the location of a line that starts with LOCATION: after the colon, else
\* the next line, else the value so far
OwnLineLocation(lines, i, location_val) ==
    IF Contains(lines[i], <<":">>) THEN AfterColon(lines[i])
    ELSE IF i < Len(lines) THEN Strip(lines[i + 1])
    ELSE location_val

\* one pass of the loop over the lines: the values after line i
ScanLine(st, lines, i, up) ==
    IF StartsWith(up, s_STATUS) /\ Contains(up, s_LOCATION)
    THEN [status_val |-> StatusValue(SubSeq(lines[i], 1, LocPos(up))),
          location_val |-> SameLineLocation(SubSeq(lines[i], LocPos(up) + 1, Len(lines[i])))]
    ELSE [status_val |-> IF StartsWith(up, s_STATUS) THEN StatusValue(lines[i])
                         ELSE st.status_val,
          location_val |-> IF StartsWith(up, s_LOCATION)
                           THEN OwnLineLocation(lines, i, st.location_val)
                           ELSE st.location_val]

\* if status_val and location_val: break
BothFound(st) == st.status_val # <<>> /\ st.location_val # <<>>

\* the values after the first n lines
RECURSIVE ScanTo(_, _)
ScanTo(lines, n) ==
    IF n = 0 THEN [status_val |-> <<>>, location_val |-> <<>>]
    ELSE IF BothFound(ScanTo(lines, n - 1)) THEN ScanTo(lines, n - 1)
    ELSE ScanLine(ScanTo(lines, n - 1), lines, n, Strip(Upper(lines[n])))

_status_and_location_from_lines(lines) == ScanTo(lines, Len(lines))

(***************************************************************************)
(* _city_state_country_from_location and the tables it reads.              *)
(***************************************************************************)
\* FULL_STATE: the full name of a US state and its abbreviation
FULL_STATE_ABBR ==
    { <<<<"a","l","a","b","a","m","a">>, <<"A","L">>>>,
      <<<<"a","l","a","s","k","a">>, <<"A","K">>>>,
      <<<<"a","r","i","z","o","n","a">>, <<"A","Z">>>>,
      <<<<"a","r","k","a","n","s","a","s">>, <<"A","R">>>>,
      <<<<"c","a","l","i","f","o","r","n","i","a">>, <<"C","A">>>>,
      <<<<"c","o","l","o","r","a","d","o">>, <<"C","O">>>>,
      <<<<"c","o","n","n","e","c","t","i","c","u","t">>, <<"C","T">>>>,
      <<<<"d","e","l","a","w","a","r","e">>, <<"D","E">>>>,
      <<<<"d","i","s","t","r","i","c","t"," ","o","f"," ","c","o","l","u","m","b","i","a">>, <<"D","C">>>>,
      <<<<"f","l","o","r","i","d","a">>, <<"F","L">>>>,
      <<<<"g","e","o","r","g","i","a">>, <<"G","A">>>>,
      <<<<"h","a","w","a","i","i">>, <<"H","I">>>>,
      <<<<"i","d","a","h","o">>, <<"I","D">>>>,
      <<<<"i","l","l","i","n","o","i","s">>, <<"I","L">>>>,
      <<<<"i","n","d","i","a","n","a">>, <<"I","N">>>>,
      <<<<"i","o","w","a">>, <<"I","A">>>>,
      <<<<"k","a","n","s","a","s">>, <<"K","S">>>>,
      <<<<"k","e","n","t","u","c","k","y">>, <<"K","Y">>>>,
      <<<<"l","o","u","i","s","i","a","n","a">>, <<"L","A">>>>,
      <<<<"m","a","i","n","e">>, <<"M","E">>>>,
      <<<<"m","a","r","y","l","a","n","d">>, <<"M","D">>>>,
      <<<<"m","a","s","s","a","c","h","u","s","e","t","t","s">>, <<"M","A">>>>,
      <<<<"m","i","c","h","i","g","a","n">>, <<"M","I">>>>,
      <<<<"m","i","n","n","e","s","o","t","a">>, <<"M","N">>>>,
      <<<<"m","i","s","s","i","s","s","i","p","p","i">>, <<"M","S">>>>,
      <<<<"m","i","s","s","o","u","r","i">>, <<"M","O">>>>,
      <<<<"m","o","n","t","a","n","a">>, <<"M","T">>>>,
      <<<<"n","e","b","r","a","s","k","a">>, <<"N","E">>>>,
      <<<<"n","e","v","a","d","a">>, <<"N","V">>>>,
      <<<<"n","e","w"," ","h","a","m","p","s","h","i","r","e">>, <<"N","H">>>>,
      <<<<"n","e","w"," ","j","e","r","s","e","y">>, <<"N","J">>>>,
      <<<<"n","e","w"," ","m","e","x","i","c","o">>, <<"N","M">>>>,
      <<<<"n","e","w"," ","y","o","r","k">>, <<"N","Y">>>>,
      <<<<"n","o","r","t","h"," ","c","a","r","o","l","i","n","a">>, <<"N","C">>>>,
      <<<<"n","o","r","t","h"," ","d","a","k","o","t","a">>, <<"N","D">>>>,
      <<<<"o","h","i","o">>, <<"O","H">>>>,
      <<<<"o","k","l","a","h","o","m","a">>, <<"O","K">>>>,
      <<<<"o","r","e","g","o","n">>, <<"O","R">>>>,
      <<<<"p","e","n","n","s","y","l","v","a","n","i","a">>, <<"P","A">>>>,
      <<<<"r","h","o","d","e"," ","i","s","l","a","n","d">>, <<"R","I">>>>,
      <<<<"s","o","u","t","h"," ","c","a","r","o","l","i","n","a">>, <<"S","C">>>>,
      <<<<"s","o","u","t","h"," ","d","a","k","o","t","a">>, <<"S","D">>>>,
      <<<<"t","e","n","n","e","s","s","e","e">>, <<"T","N">>>>,
      <<<<"t","e","x","a","s">>, <<"T","X">>>>,
      <<<<"u","t","a","h">>, <<"U","T">>>>,
      <<<<"v","e","r","m","o","n","t">>, <<"V","T">>>>,
      <<<<"v","i","r","g","i","n","i","a">>, <<"V","A">>>>,
      <<<<"w","a","s","h","i","n","g","t","o","n">>, <<"W","A">>>>,
      <<<<"w","e","s","t"," ","v","i","r","g","i","n","i","a">>, <<"W","V">>>>,
      <<<<"w","i","s","c","o","n","s","i","n">>, <<"W","I">>>>,
      <<<<"w","y","o","m","i","n","g">>, <<"W","Y">>>> }

\* FULL_PROV: the full name of a Canadian province and its abbreviation
FULL_PROV_ABBR ==
    { <<<<"a","l","b","e","r","t","a">>, <<"A","B">>>>,
      <<<<"b","r","i","t","i","s","h"," ","c","o","l","u","m","b","i","a">>, <<"B","C">>>>,
      <<<<"m","a","n","i","t","o","b","a">>, <<"M","B">>>>,
      <<<<"n","e","w"," ","b","r","u","n","s","w","i","c","k">>, <<"N","B">>>>,
      <<<<"n","e","w","f","o","u","n","d","l","a","n","d"," ","a","n","d"," ","l","a","b","r","a","d","o","r">>, <<"N","L">>>>,
      <<<<"n","o","v","a"," ","s","c","o","t","i","a">>, <<"N","S">>>>,
      <<<<"n","o","r","t","h","w","e","s","t"," ","t","e","r","r","i","t","o","r","i","e","s">>, <<"N","T">>>>,
      <<<<"n","u","n","a","v","u","t">>, <<"N","U">>>>,
      <<<<"o","n","t","a","r","i","o">>, <<"O","N">>>>,
      <<<<"p","r","i","n","c","e"," ","e","d","w","a","r","d"," ","i","s","l","a","n","d">>, <<"P","E">>>>,
      <<<<"q","u","e","b","e","c">>, <<"Q","C">>>>,
      <<<<"s","a","s","k","a","t","c","h","e","w","a","n">>, <<"S","K">>>>,
      <<<<"y","u","k","o","n">>, <<"Y","T">>>>,
      <<<<"n","e","w","f","o","u","n","d","l","a","n","d">>, <<"N","L">>>> }

\* FULL_AU_STATE: the full name of an Australian state and its abbreviation
FULL_AU_STATE_ABBR ==
    { <<<<"n","e","w"," ","s","o","u","t","h"," ","w","a","l","e","s">>, <<"N","S","W">>>>,
      <<<<"v","i","c","t","o","r","i","a">>, <<"V","I","C">>>>,
      <<<<"q","u","e","e","n","s","l","a","n","d">>, <<"Q","L","D">>>>,
      <<<<"w","e","s","t","e","r","n"," ","a","u","s","t","r","a","l","i","a">>, <<"W","A">>>>,
      <<<<"s","o","u","t","h"," ","a","u","s","t","r","a","l","i","a">>, <<"S","A">>>>,
      <<<<"t","a","s","m","a","n","i","a">>, <<"T","A","S">>>>,
      <<<<"a","u","s","t","r","a","l","i","a","n"," ","c","a","p","i","t","a","l"," ","t","e","r","r","i","t","o","r","y">>, <<"A","C","T">>>>,
      <<<<"n","o","r","t","h","e","r","n"," ","t","e","r","r","i","t","o","r","y">>, <<"N","T">>>> }

\* CITY_TO_REGION_COUNTRY: lowercased city and its (city, region, country)
CITY_TO_REGION_COUNTRY ==
    { <<<<"l","o","s"," ","a","n","g","e","l","e","s">>, <<<<"L","o","s"," ","A","n","g","e","l","e","s">>, <<"C","A">>, <<"U","S","A">>>>>>,
      <<<<"a","t","l","a","n","t","a">>, <<<<"A","t","l","a","n","t","a">>, <<"G","A">>, <<"U","S","A">>>>>>,
      <<<<"n","e","w"," ","y","o","r","k">>, <<<<"N","e","w"," ","Y","o","r","k">>, <<"N","Y">>, <<"U","S","A">>>>>>,
      <<<<"n","e","w"," ","y","o","r","k"," ","c","i","t","y">>, <<<<"N","e","w"," ","Y","o","r","k">>, <<"N","Y">>, <<"U","S","A">>>>>>,
      <<<<"b","r","o","o","k","l","y","n">>, <<<<"B","r","o","o","k","l","y","n">>, <<"N","Y">>, <<"U","S","A">>>>>>,
      <<<<"a","l","b","u","q","u","e","r","q","u","e">>, <<<<"A","l","b","u","q","u","e","r","q","u","e">>, <<"N","M">>, <<"U","S","A">>>>>>,
      <<<<"c","h","i","c","a","g","o">>, <<<<"C","h","i","c","a","g","o">>, <<"I","L">>, <<"U","S","A">>>>>>,
      <<<<"v","a","n","c","o","u","v","e","r">>, <<<<"V","a","n","c","o","u","v","e","r">>, <<"B","C">>, <<"C","a","n","a","d","a">>>>>>,
      <<<<"b","u","r","n","a","b","y">>, <<<<"B","u","r","n","a","b","y">>, <<"B","C">>, <<"C","a","n","a","d","a">>>>>>,
      <<<<"r","i","c","h","m","o","n","d">>, <<<<"R","i","c","h","m","o","n","d">>, <<"B","C">>, <<"C","a","n","a","d","a">>>>>>,
      <<<<"s","u","r","r","e","y">>, <<<<"S","u","r","r","e","y">>, <<"B","C">>, <<"C","a","n","a","d","a">>>>>>,
      <<<<"l","a","n","g","l","e","y">>, <<<<"L","a","n","g","l","e","y">>, <<"B","C">>, <<"C","a","n","a","d","a">>>>>>,
      <<<<"v","i","c","t","o","r","i","a">>, <<<<"V","i","c","t","o","r","i","a">>, <<"B","C">>, <<"C","a","n","a","d","a">>>>>>,
      <<<<"t","o","r","o","n","t","o">>, <<<<"T","o","r","o","n","t","o">>, <<"O","N">>, <<"C","a","n","a","d","a">>>>>>,
      <<<<"m","i","s","s","i","s","s","a","u","g","a">>, <<<<"M","i","s","s","i","s","s","a","u","g","a">>, <<"O","N">>, <<"C","a","n","a","d","a">>>>>>,
      <<<<"h","a","m","i","l","t","o","n">>, <<<<"H","a","m","i","l","t","o","n">>, <<"O","N">>, <<"C","a","n","a","d","a">>>>>>,
      <<<<"o","t","t","a","w","a">>, <<<<"O","t","t","a","w","a">>, <<"O","N">>, <<"C","a","n","a","d","a">>>>>>,
      <<<<"m","o","n","t","r","e","a","l">>, <<<<"M","o","n","t","r","e","a","l">>, <<"Q","C">>, <<"C","a","n","a","d","a">>>>>>,
      <<<<"q","u","e","b","e","c"," ","c","i","t","y">>, <<<<"Q","u","e","b","e","c"," ","C","i","t","y">>, <<"Q","C">>, <<"C","a","n","a","d","a">>>>>>,
      <<<<"c","a","l","g","a","r","y">>, <<<<"C","a","l","g","a","r","y">>, <<"A","B">>, <<"C","a","n","a","d","a">>>>>>,
      <<<<"e","d","m","o","n","t","o","n">>, <<<<"E","d","m","o","n","t","o","n">>, <<"A","B">>, <<"C","a","n","a","d","a">>>>>>,
      <<<<"w","i","n","n","i","p","e","g">>, <<<<"W","i","n","n","i","p","e","g">>, <<"M","B">>, <<"C","a","n","a","d","a">>>>>>,
      <<<<"h","a","l","i","f","a","x">>, <<<<"H","a","l","i","f","a","x">>, <<"N","S">>, <<"C","a","n","a","d","a">>>>>>,
      <<<<"s","t","."," ","j","o","h","n","s">>, <<<<"S","t","."," ","J","o","h","n","'","s">>, <<"N","L">>, <<"C","a","n","a","d","a">>>>>>,
      <<<<"s","t"," ","j","o","h","n","s">>, <<<<"S","t","."," ","J","o","h","n","'","s">>, <<"N","L">>, <<"C","a","n","a","d","a">>>>>>,
      <<<<"l","o","n","d","o","n",","," ","e","n","g","l","a","n","d">>, <<<<"L","o","n","d","o","n">>, <<"E","n","g","l","a","n","d">>, <<"U","n","i","t","e","d"," ","K","i","n","g","d","o","m">>>>>>,
      <<<<"s","y","d","n","e","y">>, <<<<"S","y","d","n","e","y">>, <<"N","S","W">>, <<"A","u","s","t","r","a","l","i","a">>>>>>,
      <<<<"m","e","l","b","o","u","r","n","e">>, <<<<"M","e","l","b","o","u","r","n","e">>, <<"V","I","C">>, <<"A","u","s","t","r","a","l","i","a">>>>>>,
      <<<<"b","r","i","s","b","a","n","e">>, <<<<"B","r","i","s","b","a","n","e">>, <<"Q","L","D">>, <<"A","u","s","t","r","a","l","i","a">>>>>>,
      <<<<"g","o","l","d"," ","c","o","a","s","t">>, <<<<"G","o","l","d"," ","C","o","a","s","t">>, <<"Q","L","D">>, <<"A","u","s","t","r","a","l","i","a">>>>>>,
      <<<<"p","e","r","t","h">>, <<<<"P","e","r","t","h">>, <<"W","A">>, <<"A","u","s","t","r","a","l","i","a">>>>>>,
      <<<<"a","d","e","l","a","i","d","e">>, <<<<"A","d","e","l","a","i","d","e">>, <<"S","A">>, <<"A","u","s","t","r","a","l","i","a">>>>>>,
      <<<<"c","a","n","b","e","r","r","a">>, <<<<"C","a","n","b","e","r","r","a">>, <<"A","C","T">>, <<"A","u","s","t","r","a","l","i","a">>>>>>,
      <<<<"h","o","b","a","r","t">>, <<<<"H","o","b","a","r","t">>, <<"T","A","S">>, <<"A","u","s","t","r","a","l","i","a">>>>>>,
      <<<<"d","a","r","w","i","n">>, <<<<"D","a","r","w","i","n">>, <<"N","T">>, <<"A","u","s","t","r","a","l","i","a">>>>>>,
      <<<<"a","u","c","k","l","a","n","d">>, <<<<"A","u","c","k","l","a","n","d">>, <<>>, <<"N","e","w"," ","Z","e","a","l","a","n","d">>>>>>,
      <<<<"w","e","l","l","i","n","g","t","o","n">>, <<<<"W","e","l","l","i","n","g","t","o","n">>, <<>>, <<"N","e","w"," ","Z","e","a","l","a","n","d">>>>>>,
      <<<<"q","u","e","e","n","s","t","o","w","n">>, <<<<"Q","u","e","e","n","s","t","o","w","n">>, <<>>, <<"N","e","w"," ","Z","e","a","l","a","n","d">>>>>>,
      <<<<"c","h","r","i","s","t","c","h","u","r","c","h">>, <<<<"C","h","r","i","s","t","c","h","u","r","c","h">>, <<>>, <<"N","e","w"," ","Z","e","a","l","a","n","d">>>>>>,
      <<<<"b","a","n","g","k","o","k">>, <<<<"B","a","n","g","k","o","k">>, <<>>, <<"T","h","a","i","l","a","n","d">>>>>>,
      <<<<"c","a","i","r","o">>, <<<<"C","a","i","r","o">>, <<>>, <<"E","g","y","p","t">>>>>>,
      <<<<"t","o","k","y","o">>, <<<<"T","o","k","y","o">>, <<>>, <<"J","a","p","a","n">>>>>>,
      <<<<"k","y","o","t","o">>, <<<<"K","y","o","t","o">>, <<>>, <<"J","a","p","a","n">>>>>>,
      <<<<"o","s","a","k","a">>, <<<<"O","s","a","k","a">>, <<>>, <<"J","a","p","a","n">>>>>>,
      <<<<"j","a","p","a","n">>, <<<<>>, <<>>, <<"J","a","p","a","n">>>>>> }

\* COMMON_FIXES: a known misspelling and its correction
COMMON_FIXES ==
    { <<<<"o","n","t","a","r","t","i","o">>, <<"o","n","t","a","r","i","o">>>>,
      <<<<"l","o","s"," ","a","n","g","l","e","s">>, <<"l","o","s"," ","a","n","g","e","l","e","s">>>>,
      <<<<"n","e","w","y","o","r","k">>, <<"n","e","w"," ","y","o","r","k">>>>,
      <<<<"u","n","i","t","e","d"," ","k","i","n","d","o","m">>, <<"u","n","i","t","e","d"," ","k","i","n","g","d","o","m">>>>,
      <<<<"u","n","i","t","e","d"," ","k","n","g","d","o","m">>, <<"u","n","i","t","e","d"," ","k","i","n","g","d","o","m">>>>,
      <<<<"t","o","k","o","y","o">>, <<"t","o","k","y","o">>>>,
      <<<<"m","u","n","c","h","e","n">>, <<"m","u","n","i","c","h">>>>,
      <<<<"p","r","a","u","g","e">>, <<"p","r","a","g","u","e">>>> }

\* HUB_SUBSTRINGS: the pattern between its two \b, letters in either case,
\* and the (city, region, country) of the hub
HUB_SUBSTRINGS ==
    << [pat |-> <<Step({"l", "L"}, 1, 1), Step({"o", "O"}, 1, 1), Step({"s", "S"}, 1, 1), Step(SpaceSet, 1, -1), Step({"a", "A"}, 1, 1), Step({"n", "N"}, 1, 1), Step({"g", "G"}, 1, 1), Step({"e", "E"}, 1, 1), Step({"l", "L"}, 1, 1), Step({"e", "E"}, 1, 1), Step({"s", "S"}, 1, 1)>>,
        triple |-> <<<<"L","o","s"," ","A","n","g","e","l","e","s">>, <<"C","A">>, <<"U","S","A">>>>],
       [pat |-> <<Step({"n", "N"}, 1, 1), Step({"e", "E"}, 1, 1), Step({"w", "W"}, 1, 1), Step(SpaceSet, 1, -1), Step({"y", "Y"}, 1, 1), Step({"o", "O"}, 1, 1), Step({"r", "R"}, 1, 1), Step({"k", "K"}, 1, 1)>>,
        triple |-> <<<<"N","e","w"," ","Y","o","r","k">>, <<"N","Y">>, <<"U","S","A">>>>],
       [pat |-> <<Step({"a", "A"}, 1, 1), Step({"t", "T"}, 1, 1), Step({"l", "L"}, 1, 1), Step({"a", "A"}, 1, 1), Step({"n", "N"}, 1, 1), Step({"t", "T"}, 1, 1), Step({"a", "A"}, 1, 1)>>,
        triple |-> <<<<"A","t","l","a","n","t","a">>, <<"G","A">>, <<"U","S","A">>>>],
       [pat |-> <<Step({"a", "A"}, 1, 1), Step({"l", "L"}, 1, 1), Step({"b", "B"}, 1, 1), Step({"u", "U"}, 1, 1), Step({"q", "Q"}, 1, 1), Step({"u", "U"}, 1, 1), Step({"e", "E"}, 1, 1), Step({"r", "R"}, 1, 1), Step({"q", "Q"}, 1, 1), Step({"u", "U"}, 1, 1), Step({"e", "E"}, 1, 1)>>,
        triple |-> <<<<"A","l","b","u","q","u","e","r","q","u","e">>, <<"N","M">>, <<"U","S","A">>>>],
       [pat |-> <<Step({"c", "C"}, 1, 1), Step({"h", "H"}, 1, 1), Step({"i", "I"}, 1, 1), Step({"c", "C"}, 1, 1), Step({"a", "A"}, 1, 1), Step({"g", "G"}, 1, 1), Step({"o", "O"}, 1, 1)>>,
        triple |-> <<<<"C","h","i","c","a","g","o">>, <<"I","L">>, <<"U","S","A">>>>],
       [pat |-> <<Step({"v", "V"}, 1, 1), Step({"a", "A"}, 1, 1), Step({"n", "N"}, 1, 1), Step({"c", "C"}, 1, 1), Step({"o", "O"}, 1, 1), Step({"u", "U"}, 1, 1), Step({"v", "V"}, 1, 1), Step({"e", "E"}, 1, 1), Step({"r", "R"}, 1, 1)>>,
        triple |-> <<<<"V","a","n","c","o","u","v","e","r">>, <<"B","C">>, <<"C","a","n","a","d","a">>>>],
       [pat |-> <<Step({"r", "R"}, 1, 1), Step({"i", "I"}, 1, 1), Step({"c", "C"}, 1, 1), Step({"h", "H"}, 1, 1), Step({"m", "M"}, 1, 1), Step({"o", "O"}, 1, 1), Step({"n", "N"}, 1, 1), Step({"d", "D"}, 1, 1)>>,
        triple |-> <<<<"R","i","c","h","m","o","n","d">>, <<"B","C">>, <<"C","a","n","a","d","a">>>>],
       [pat |-> <<Step({"b", "B"}, 1, 1), Step({"u", "U"}, 1, 1), Step({"r", "R"}, 1, 1), Step({"n", "N"}, 1, 1), Step({"a", "A"}, 1, 1), Step({"b", "B"}, 1, 1), Step({"y", "Y"}, 1, 1)>>,
        triple |-> <<<<"B","u","r","n","a","b","y">>, <<"B","C">>, <<"C","a","n","a","d","a">>>>],
       [pat |-> <<Step({"s", "S"}, 1, 1), Step({"u", "U"}, 1, 1), Step({"r", "R"}, 1, 1), Step({"r", "R"}, 1, 1), Step({"e", "E"}, 1, 1), Step({"y", "Y"}, 1, 1)>>,
        triple |-> <<<<"S","u","r","r","e","y">>, <<"B","C">>, <<"C","a","n","a","d","a">>>>],
       [pat |-> <<Step({"l", "L"}, 1, 1), Step({"a", "A"}, 1, 1), Step({"n", "N"}, 1, 1), Step({"g", "G"}, 1, 1), Step({"l", "L"}, 1, 1), Step({"e", "E"}, 1, 1), Step({"y", "Y"}, 1, 1)>>,
        triple |-> <<<<"L","a","n","g","l","e","y">>, <<"B","C">>, <<"C","a","n","a","d","a">>>>],
       [pat |-> <<Step({"v", "V"}, 1, 1), Step({"i", "I"}, 1, 1), Step({"c", "C"}, 1, 1), Step({"t", "T"}, 1, 1), Step({"o", "O"}, 1, 1), Step({"r", "R"}, 1, 1), Step({"i", "I"}, 1, 1), Step({"a", "A"}, 1, 1)>>,
        triple |-> <<<<"V","i","c","t","o","r","i","a">>, <<"B","C">>, <<"C","a","n","a","d","a">>>>],
       [pat |-> <<Step({"t", "T"}, 1, 1), Step({"o", "O"}, 1, 1), Step({"r", "R"}, 1, 1), Step({"o", "O"}, 1, 1), Step({"n", "N"}, 1, 1), Step({"t", "T"}, 1, 1), Step({"o", "O"}, 1, 1)>>,
        triple |-> <<<<"T","o","r","o","n","t","o">>, <<"O","N">>, <<"C","a","n","a","d","a">>>>],
       [pat |-> <<Step({"m", "M"}, 1, 1), Step({"i", "I"}, 1, 1), Step({"s", "S"}, 1, 1), Step({"s", "S"}, 1, 1), Step({"i", "I"}, 1, 1), Step({"s", "S"}, 1, 1), Step({"s", "S"}, 1, 1), Step({"a", "A"}, 1, 1), Step({"u", "U"}, 1, 1), Step({"g", "G"}, 1, 1), Step({"a", "A"}, 1, 1)>>,
        triple |-> <<<<"M","i","s","s","i","s","s","a","u","g","a">>, <<"O","N">>, <<"C","a","n","a","d","a">>>>],
       [pat |-> <<Step({"h", "H"}, 1, 1), Step({"a", "A"}, 1, 1), Step({"m", "M"}, 1, 1), Step({"i", "I"}, 1, 1), Step({"l", "L"}, 1, 1), Step({"t", "T"}, 1, 1), Step({"o", "O"}, 1, 1), Step({"n", "N"}, 1, 1)>>,
        triple |-> <<<<"H","a","m","i","l","t","o","n">>, <<"O","N">>, <<"C","a","n","a","d","a">>>>],
       [pat |-> <<Step({"o", "O"}, 1, 1), Step({"t", "T"}, 1, 1), Step({"t", "T"}, 1, 1), Step({"a", "A"}, 1, 1), Step({"w", "W"}, 1, 1), Step({"a", "A"}, 1, 1)>>,
        triple |-> <<<<"O","t","t","a","w","a">>, <<"O","N">>, <<"C","a","n","a","d","a">>>>],
       [pat |-> <<Step({"m", "M"}, 1, 1), Step({"o", "O"}, 1, 1), Step({"n", "N"}, 1, 1), Step({"t", "T"}, 1, 1), Step({"r", "R"}, 1, 1), Step({"e", "E"}, 1, 1), Step({"a", "A"}, 1, 1), Step({"l", "L"}, 1, 1)>>,
        triple |-> <<<<"M","o","n","t","r","e","a","l">>, <<"Q","C">>, <<"C","a","n","a","d","a">>>>],
       [pat |-> <<Step({"c", "C"}, 1, 1), Step({"a", "A"}, 1, 1), Step({"l", "L"}, 1, 1), Step({"g", "G"}, 1, 1), Step({"a", "A"}, 1, 1), Step({"r", "R"}, 1, 1), Step({"y", "Y"}, 1, 1)>>,
        triple |-> <<<<"C","a","l","g","a","r","y">>, <<"A","B">>, <<"C","a","n","a","d","a">>>>],
       [pat |-> <<Step({"w", "W"}, 1, 1), Step({"i", "I"}, 1, 1), Step({"n", "N"}, 1, 1), Step({"n", "N"}, 1, 1), Step({"i", "I"}, 1, 1), Step({"p", "P"}, 1, 1), Step({"e", "E"}, 1, 1), Step({"g", "G"}, 1, 1)>>,
        triple |-> <<<<"W","i","n","n","i","p","e","g">>, <<"M","B">>, <<"C","a","n","a","d","a">>>>],
       [pat |-> <<Step({"h", "H"}, 1, 1), Step({"a", "A"}, 1, 1), Step({"l", "L"}, 1, 1), Step({"i", "I"}, 1, 1), Step({"f", "F"}, 1, 1), Step({"a", "A"}, 1, 1), Step({"x", "X"}, 1, 1)>>,
        triple |-> <<<<"H","a","l","i","f","a","x">>, <<"N","S">>, <<"C","a","n","a","d","a">>>>],
       [pat |-> <<Step({"l", "L"}, 1, 1), Step({"o", "O"}, 1, 1), Step({"n", "N"}, 1, 1), Step({"d", "D"}, 1, 1), Step({"o", "O"}, 1, 1), Step({"n", "N"}, 1, 1), Step({","}, 1, 1), Step(SpaceSet, 0, -1), Step({"e", "E"}, 1, 1), Step({"n", "N"}, 1, 1), Step({"g", "G"}, 1, 1), Step({"l", "L"}, 1, 1), Step({"a", "A"}, 1, 1), Step({"n", "N"}, 1, 1), Step({"d", "D"}, 1, 1)>>,
        triple |-> <<<<"L","o","n","d","o","n">>, <<"E","n","g","l","a","n","d">>, <<"U","n","i","t","e","d"," ","K","i","n","g","d","o","m">>>>],
       [pat |-> <<Step({"s", "S"}, 1, 1), Step({"y", "Y"}, 1, 1), Step({"d", "D"}, 1, 1), Step({"n", "N"}, 1, 1), Step({"e", "E"}, 1, 1), Step({"y", "Y"}, 1, 1)>>,
        triple |-> <<<<"S","y","d","n","e","y">>, <<"N","S","W">>, <<"A","u","s","t","r","a","l","i","a">>>>],
       [pat |-> <<Step({"m", "M"}, 1, 1), Step({"e", "E"}, 1, 1), Step({"l", "L"}, 1, 1), Step({"b", "B"}, 1, 1), Step({"o", "O"}, 1, 1), Step({"u", "U"}, 1, 1), Step({"r", "R"}, 1, 1), Step({"n", "N"}, 1, 1), Step({"e", "E"}, 1, 1)>>,
        triple |-> <<<<"M","e","l","b","o","u","r","n","e">>, <<"V","I","C">>, <<"A","u","s","t","r","a","l","i","a">>>>] >>

\* the value of the key in a table of <<key, value>> pairs, <<>> without
\* the key
Lookup(table, key) ==
    IF \E kv \in table : kv[1] = key THEN (CHOOSE kv \in table : kv[1] = key)[2] ELSE <<>>

\* _looks_like_region_token: <<abbreviation, country>>, both "" for a token
\* that is in none of the tables
_looks_like_region_token(token) ==
    IF token = <<>> THEN << <<>>, <<>> >>
    ELSE IF Upper(Strip(token)) \in US_STATES THEN <<Upper(Strip(token)), s_USA>>
    ELSE IF Upper(Strip(token)) \in CA_PROV THEN <<Upper(Strip(token)), s_Canada>>
    ELSE IF Upper(Strip(token)) \in AU_STATES THEN <<Upper(Strip(token)), s_Australia>>
    ELSE IF Lookup(FULL_STATE_ABBR, Lower(Strip(token))) # <<>>
    THEN <<Lookup(FULL_STATE_ABBR, Lower(Strip(token))), s_USA>>
    ELSE IF Lookup(FULL_PROV_ABBR, Lower(Strip(token))) # <<>>
    THEN <<Lookup(FULL_PROV_ABBR, Lower(Strip(token))), s_Canada>>
    ELSE IF Lookup(FULL_AU_STATE_ABBR, Lower(Strip(token))) # <<>>
    THEN <<Lookup(FULL_AU_STATE_ABBR, Lower(Strip(token))), s_Australia>>
    ELSE << <<>>, <<>> >>

\* COMMON_FIXES.get(s.strip().lower(), s)
_fix_common_typos(s) ==
    IF s # <<>> /\ Lookup(COMMON_FIXES, Lower(Strip(s))) # <<>>
    THEN Lookup(COMMON_FIXES, Lower(Strip(s))) ELSE s

\* re.sub(r"[ \t]+", " ", s.strip())
NormSpaces(t) ==
    LET Blank(c) == c \in {" ", "\t"}
        Kept(i) == ~Blank(t[i]) \/ i = 1 \/ ~Blank(t[i - 1])
        kept == SelectSeq(Indices(t), Kept)
    IN  <<>> \o [k \in 1..Len(kept) |-> IF Blank(t[kept[k]]) THEN " " ELSE t[kept[k]]]

_normalize_spaces(s) == NormSpaces(Strip(s))

\* the dashes and the apostrophes of the raw text made ASCII
FoldLocChar(c) ==
    IF c \in {EnDash, EmDash} THEN "-"
    ELSE IF c \in {"U+2019", "U+2018", "U+0060"} THEN "'"
    ELSE c

\* \s*\([^)]*\)\s* tried at index s: the index after the match, 0 without
ParenEnd(raw, s, w) ==
    IF At(raw, w) = "(" /\ \E e \in (w + 1)..Len(raw) : raw[e] = ")"
    THEN RunEnd(raw, MinOf({e \in (w + 1)..Len(raw) : raw[e] = ")"}) + 1, SpaceSet)
    ELSE 0

ParenStarts(raw, i) == {s \in i..Len(raw) : ParenEnd(raw, s, RunEnd(raw, s, SpaceSet)) > 0}

\* re.sub(r"\s*\([^)]*\)\s*", " ", raw) from index i on
RECURSIVE DropParens(_, _)
DropParensAt(raw, i, s) ==
    SubSeq(raw, i, s - 1) \o <<" ">> \o DropParens(raw, ParenEnd(raw, s, RunEnd(raw, s, SpaceSet)))

DropParens(raw, i) ==
    IF ParenStarts(raw, i) = {} THEN SubSeq(raw, i, Len(raw))
    ELSE DropParensAt(raw, i, MinOf(ParenStarts(raw, i)))

\* the raw text as the parser reads it
NormLocation(loc_val) ==
    Strip(CollapseSpaces(DropParens(<<>> \o [i \in DOMAIN loc_val |-> FoldLocChar(loc_val[i])], 1)))

\* \s*(?:[;/|&]|-\s+|\s+-)\s* tried at index s, w being the end of the
\* whitespace at s: the index after the match, 0 without
SepEnd(raw, s, w) ==
    IF \/ At(raw, w) \in {";", "/", "|", "&"}
       \/ At(raw, w) = "-" /\ (IsSpace(At(raw, w + 1)) \/ s < w)
    THEN RunEnd(raw, w + 1, SpaceSet)
    ELSE 0

SepStarts(raw, i) == {s \in i..Len(raw) : SepEnd(raw, s, RunEnd(raw, s, SpaceSet)) > 0}

\* re.split of the raw text on the separators, from index i on
RECURSIVE SplitSites(_, _)
SplitSitesAt(raw, i, s) ==
    <<SubSeq(raw, i, s - 1)>> \o SplitSites(raw, SepEnd(raw, s, RunEnd(raw, s, SpaceSet)))

SplitSites(raw, i) ==
    IF SepStarts(raw, i) = {} THEN <<SubSeq(raw, i, Len(raw))>>
    ELSE SplitSitesAt(raw, i, MinOf(SepStarts(raw, i)))

\* the stripped pieces that are not empty
Filled(pieces) ==
    LET NonBlank(t) == Strip(t) # <<>>
        kept == SelectSeq(pieces, NonBlank)
    IN  [k \in DOMAIN kept |-> Strip(kept[k])]

\* rx.search(p) for the pattern of a hub
HubFound(p, pat) ==
    \E i \in DOMAIN p :
        /\ ~IsWordChar(At(p, i - 1))
        /\ PatEnds(p, i, pat) # <<>>
        /\ ~IsWordChar(At(p, PatEnds(p, i, pat)[Len(pat) + 1]))

\* the hubs of HUB_SUBSTRINGS found in p
HubsOf(p) == {h \in DOMAIN HUB_SUBSTRINGS : HubFound(p, HUB_SUBSTRINGS[h].pat)}

(***************************************************************************)
(* world_lookup_city.  The gazetteer is the data of the geonamescache and  *)
(* pycountry packages; the model reads a gazetteer of a few cities: one    *)
(* with a state code, two with numeric region codes, one whose country     *)
(* code is not in the country table, and a name that two cities share.     *)
(***************************************************************************)
\* _gc.get_cities().values(), in the order of the package
GC_CITIES ==
    << [name |-> <<"B","o","s","t","o","n">>, countrycode |-> <<"U","S">>, admin1code |-> <<"M","A">>],
       [name |-> <<"P","a","r","i","s">>, countrycode |-> <<"F","R">>, admin1code |-> <<"1","1">>],
       [name |-> <<"P","r","a","g","u","e">>, countrycode |-> <<"C","Z">>, admin1code |-> <<"5","2">>],
       [name |-> <<"S","m","a","l","l","v","i","l","l","e">>, countrycode |-> <<"X","X">>, admin1code |-> <<>>],
       [name |-> <<"P","a","r","i","s">>, countrycode |-> <<"U","S">>, admin1code |-> <<"T","X">>] >>

\* _gc.get_countries(): code and name
GC_CNTRY ==
    { <<<<"U","S">>, <<"U","n","i","t","e","d"," ","S","t","a","t","e","s">>>>,
      <<<<"F","R">>, <<"F","r","a","n","c","e">>>>,
      <<<<"C","Z">>, <<"C","z","e","c","h","i","a">>>> }

\* pycountry.subdivisions: country code, subdivision code, name
SUBDIVISIONS ==
    { <<<<"U","S">>, <<"M","A">>, <<"M","a","s","s","a","c","h","u","s","e","t","t","s">>>>,
      <<<<"U","S">>, <<"T","X">>, <<"T","e","x","a","s">>>> }

\* fuzz.ratio of rapidfuzz: 100 - 100 * indel distance / sum of the lengths
ratio(s1, s2) == norm_distance(indel_distance(s1, s2), Len(s1) + Len(s2))

\* the pieces of the longer text that _partial_ratio_impl of rapidfuzz
\* compares the shorter text with: the prefixes shorter than it, the
\* windows of its length and the suffixes, each only when its last (for a
\* suffix its first) character occurs in the shorter text
PartialWindows(s1, s2) ==
    {SubSeq(s2, 1, i) : i \in {k \in 1..(Len(s1) - 1) : s2[k] \in Range(s1)}}
    \cup {SubSeq(s2, i, i + Len(s1) - 1) :
              i \in {k \in 1..(Len(s2) - Len(s1)) : s2[k + Len(s1) - 1] \in Range(s1)}}
    \cup {SubSeq(s2, i, Len(s2)) :
              i \in {k \in (Len(s2) - Len(s1) + 1)..Len(s2) : s2[k] \in Range(s1)}}

\* the greatest of a set of scores, 0 for the empty set
ScoreMaxOf(S) ==
    IF S = {} THEN Pct(0) ELSE CHOOSE a \in S : \A b \in S : ScoreGeq(a, b)

\* s1 not longer than s2
PartialImpl(s1, s2) == ScoreMaxOf({ratio(s1, w) : w \in PartialWindows(s1, s2)})

\* fuzz.partial_ratio of rapidfuzz for two texts that are not empty
partial_ratio(s1, s2) ==
    IF Len(s1) < Len(s2) THEN PartialImpl(s1, s2)
    ELSE IF Len(s2) < Len(s1) THEN PartialImpl(s2, s1)
    ELSE ScoreMax(PartialImpl(s1, s2), PartialImpl(s2, s1))

\* [c for c in _GC_CITIES.values() if c["name"].lower() == name_lower]
_city_candidates(name_lower) ==
    LET Named(c) == Lower(c.name) = name_lower
    IN  SelectSeq(GC_CITIES, Named)

\* the text after the last "."
AfterLastDot(code) ==
    IF \E i \in DOMAIN code : code[i] = "."
    THEN SubSeq(code, MaxOf({i \in DOMAIN code : code[i] = "."}) + 1, Len(code))
    ELSE code

\* the name pycountry has for the subdivision, <<>> without one
SubdivisionName(iso2, code) ==
    IF \E sd \in SUBDIVISIONS : sd[1] = iso2 /\ sd[2] = code
    THEN (CHOOSE sd \in SUBDIVISIONS : sd[1] = iso2 /\ sd[2] = code)[3]
    ELSE <<>>

NormalizedAdmin1(iso2, code) ==
    IF \E sd \in SUBDIVISIONS : sd[1] = iso2 /\ sd[2] = code
    THEN IF Len(code) <= 3 THEN code ELSE SubdivisionName(iso2, code)
    ELSE code

_normalize_admin1(iso2, admin1_code) == NormalizedAdmin1(iso2, AfterLastDot(admin1_code))

\* the loop over the cities when no name equals q: the best name so far and
\* its score, the loop ending at a new best score of 98 or more
RECURSIVE FuzzyBest(_, _, _, _)
FuzzyNext(q, i, best_name, best_score, s) ==
    IF ScoreGt(s, best_score)
    THEN IF ScoreGeq(s, Pct(98)) THEN <<Lower(GC_CITIES[i].name), s>>
         ELSE FuzzyBest(q, i + 1, Lower(GC_CITIES[i].name), s)
    ELSE FuzzyBest(q, i + 1, best_name, best_score)

FuzzyBest(q, i, best_name, best_score) ==
    IF i > Len(GC_CITIES) THEN <<best_name, best_score>>
    ELSE FuzzyNext(q, i, best_name, best_score, partial_ratio(q, Lower(GC_CITIES[i].name)))

\* the candidates for q: the cities of that name, else the cities of the
\* name closest to it when its score is 90 or more
FuzzyCandidates(best) ==
    IF ScoreGeq(best[2], Pct(90)) THEN _city_candidates(best[1]) ELSE <<>>

CandidatesOf(q) ==
    IF _city_candidates(q) # <<>> THEN _city_candidates(q)
    ELSE FuzzyCandidates(FuzzyBest(q, 1, <<>>, Pct(0)))

\* the answer for the first candidate; without hints the sort keeps the
\* order of the candidates
CityHit(hit) ==
    <<hit.name, _normalize_admin1(hit.countrycode, hit.admin1code),
      Lookup(GC_CNTRY, hit.countrycode)>>

CityAnswer(cands) == IF cands = <<>> THEN << <<>>, <<>>, <<>> >> ELSE CityHit(cands[1])

\* world_lookup_city(city_raw) without hints
world_lookup_city(city_raw) ==
    IF city_raw = <<>> THEN << <<>>, <<>>, <<>> >>
    ELSE CityAnswer(CandidatesOf(Lower(Strip(city_raw))))

\* str.isdigit
IsDigits(s) == s # <<>> /\ \A i \in DOMAIN s : IsDigit(s[i])

\* the gazetteer fallback of the loop body
GazetteerSite(p, hit) ==
    IF hit[3] # <<>>
    THEN <<_normalize_spaces(IF hit[1] # <<>> THEN hit[1] ELSE p),
           _normalize_spaces(IF IsDigits(hit[2]) THEN <<>> ELSE hit[2]), hit[3]>>
    ELSE <<_normalize_spaces(p), <<>>, <<>>>>

\* the three-token form "City, Region, Country"
ThreeTokens(toks, reg) ==
    <<_normalize_spaces(toks[1]),
      _normalize_spaces(IF reg[1] # <<>> THEN reg[1] ELSE toks[2]),
      _normalize_spaces(IF _as_country(Lower(toks[3])) # <<>> THEN _as_country(Lower(toks[3]))
                        ELSE IF reg[2] # <<>> THEN reg[2] ELSE toks[3])>>

\* the two-token form "City, Tail": the tail a country, else a region, else
\* unknown
TwoTokens(city, tail) ==
    IF _as_country(Lower(tail)) # <<>> THEN <<city, <<>>, _as_country(Lower(tail))>>
    ELSE IF _looks_like_region_token(tail)[1] # <<>>
    THEN <<city, _looks_like_region_token(tail)[1], _looks_like_region_token(tail)[2]>>
    ELSE <<city, <<>>, <<>>>>

\* the comma forms; any other number of tokens goes to the gazetteer
CommaForms(p, toks) ==
    IF Len(toks) = 3 THEN ThreeTokens(toks, _looks_like_region_token(toks[2]))
    ELSE IF Len(toks) = 2 THEN TwoTokens(_normalize_spaces(toks[1]), _normalize_spaces(toks[2]))
    ELSE GazetteerSite(p, world_lookup_city(p))

\* the body of 'for p in parts', p with its typos fixed and its spaces
\* collapsed
SiteOf(p) ==
    IF _as_country(Lower(p)) # <<>> THEN << <<>>, <<>>, _as_country(Lower(p)) >>
    ELSE IF _looks_like_region_token(p)[1] # <<>> /\ ~Contains(p, <<",">>)
    THEN << <<>>, _looks_like_region_token(p)[1], _looks_like_region_token(p)[2] >>
    ELSE IF HubsOf(p) # {} THEN HUB_SUBSTRINGS[MinOf(HubsOf(p))].triple
    ELSE IF Lookup(CITY_TO_REGION_COUNTRY, Lower(p)) # <<>>
    THEN Lookup(CITY_TO_REGION_COUNTRY, Lower(p))
    ELSE CommaForms(p, Filled(SplitBy(p, <<",">>)))

ParsedSite(part) == SiteOf(Strip(CollapseSpaces(_fix_common_typos(part))))

\* " + ".join of the k-th components that are not empty
JoinedColumn(parsed, k) ==
    LET NonEmpty(t) == t[k] # <<>>
        kept == SelectSeq(parsed, NonEmpty)
    IN  Join([n \in DOMAIN kept |-> kept[n][k]], <<" ", "+", " ">>)

JoinedSites(parsed) ==
    <<JoinedColumn(parsed, 1), JoinedColumn(parsed, 2), JoinedColumn(parsed, 3)>>

ParsedParts(parts) ==
    IF parts = <<>> THEN << <<>>, <<>>, <<>> >>
    ELSE JoinedSites([n \in DOMAIN parts |-> ParsedSite(parts[n])])

\* the parser on the normalised text
ParsedLocation(raw) ==
    IF _as_country(Lower(raw)) # <<>> THEN << <<>>, <<>>, _as_country(Lower(raw)) >>
    ELSE ParsedParts(Filled(SplitSites(raw, 1)))

\* (city, region, country)
_city_state_country_from_location(loc_val) ==
    IF loc_val = <<>> THEN << <<>>, <<>>, <<>> >> ELSE ParsedLocation(NormLocation(loc_val))

(***************************************************************************)
(* State.                                                                  *)
(***************************************************************************)
VARIABLES
    pc,          \* "compare": compare_cmd is running; "master_load" and
                 \* "master_compare": master_compare_cmd is reading its inputs,
                 \* is in its loop; "done": the command has returned
    old_rows,    \* compare_cmd: rows of the old run, in file order
    new_rows,    \* compare_cmd: rows of the new run, in file order
    matched,     \* compare_cmd: the '_matched' flag of each old row
    n_idx,       \* compare_cmd: position of the first loop (next new row)
    o_idx,       \* compare_cmd: position of the second loop (next old row)
    out_rows,    \* compare_cmd: the rows collected for the comparison CSV
    out_csv,     \* the comparison CSV on disk: <<>> until it is written
    master_rows, \* master_compare_cmd: records of the master sheet, in file order
    weekly_rows, \* master_compare_cmd: rows of the weekly CSV, in file order
    base_titles, \* master_compare_cmd: the titles of the weekly baseline file
    region,      \* master_compare_cmd: the region label, <<>> for none
    m_map,       \* master_compare_cmd: master record by normalized title
    w_map,       \* master_compare_cmd: weekly record by normalized title
    w_order,     \* master_compare_cmd: the keys of w_map in file order
    w_pos,       \* master_compare_cmd: position of the loop over w_order
    diff_rows_master, \* master_compare_cmd: the rows collected for the output
    out_master,  \* the VS_MASTER CSV on disk: <<>> until it is written
    summary_txt, \* the SUMMARY.txt on disk: <<>> until it is written
    summary_acc, \* master_compare_cmd: <<>> for None, else <<d>> with d the
                 \* dict of the batch, a function of the keys it holds
    regions_left, \* App.run_master_compare: the regions of the batch still
                 \* to run, <<>> for a single region
    arg,         \* a function called on its own: its argument
    ret,         \* a function called on its own: the values returned so far
    doc,         \* extract_text_structured: the pages of the PDF, each the
                 \* sequence of its visual blocks in the order of the file
    page_no,     \* extract_text_structured: 1-based number of the next page
    cur_prod_lines, \* extract_text_structured: lines of the production being collected
    all_prods,   \* extract_text_structured: the productions closed so far
    page_dumps,  \* the per-page dump files written so far
    seg_out,     \* the structured file and the per-production files: <<>>
                 \* until they are written
    build_in,    \* build_cmd: the input path, a folder of per-production
                 \* files or a structured file
    blocks,      \* build_cmd: the blocks load_blocks returned
    titles,      \* build_cmd: the titles load_blocks returned
    b_pos,       \* build_cmd: position of the loop over blocks
    filtered_titles, \* build_cmd: titles of the excluded blocks
    kept_rows,   \* build_cmd: rows of the kept blocks
    build_out    \* the CSV, baseline and filtered-title files: <<>> until
                 \* they are written

compareVars == <<old_rows, new_rows, matched, n_idx, o_idx, out_rows, out_csv>>

masterVars == <<master_rows, weekly_rows, base_titles, region, m_map, w_map, w_order, w_pos,
                diff_rows_master, out_master, summary_txt, summary_acc, regions_left>>

callVars == <<arg, ret>>

segVars == <<doc, page_no, cur_prod_lines, all_prods, page_dumps, seg_out>>

buildVars == <<build_in, blocks, titles, b_pos, filtered_titles, kept_rows, build_out>>

vars == <<pc, compareVars, masterVars, callVars, segVars, buildVars>>

(***************************************************************************)
(* compare_cmd                                                             *)
(***************************************************************************)
\* the title score of a new row against an old row
TitleScore(n_row, o_row) ==
    token_set_ratio(_norm_text(Get(n_row, "Production Name")),
                    _norm_text(Get(o_row, "Production Name")))

\* 'if score > best_score' with the later row winning ties
BetterLast(score, best_score) == ScoreGeq(score, best_score)

\* 'if score > best_score'
Better(score, best_score) == ScoreGt(score, best_score)

\* the inner loop: the best not-yet-matched old row (0: none) and its score
RECURSIVE BestFrom(_, _, _, _, _)
BestFrom(olds, flags, n_row, j, best) ==
    IF j > Len(olds) THEN best
    ELSE IF flags[j] THEN BestFrom(olds, flags, n_row, j + 1, best)
    ELSE LET score == TitleScore(n_row, olds[j])
         IN  IF Better(score, best.score)
             THEN BestFrom(olds, flags, n_row, j + 1, [idx |-> j, score |-> score])
             ELSE BestFrom(olds, flags, n_row, j + 1, best)

BestMatch(olds, flags, n_row) == BestFrom(olds, flags, n_row, 1, [idx |-> 0, score |-> Pct(0)])

\* 'if score_percent >= 90'
ConfidentFrom90(score) == ScoreGeq(score, Pct(90))

\* 'if score_percent > 90'
Confident(score) == ScoreGt(score, Pct(90))

\* 'elif 50 < score_percent <= 90'
RenameBandAbove50(score) == ScoreGt(score, Pct(50)) /\ ScoreGeq(Pct(90), score)

\* 'elif 50 <= score_percent <= 90'
RenameBand(score) == ScoreGeq(score, Pct(50)) /\ ScoreGeq(Pct(90), score)

OutRow(row, category, notes) == [row |-> fill_na(row), Category |-> category, Notes |-> notes]

\* the rows one pass of the first loop appends for n_row, given its best match
RowsForNew(n_row, best, olds) ==
    IF Confident(best.score)
    THEN LET diffs == _changed_fields(olds[best.idx], n_row)
         IN  IF diffs # <<>>
             THEN <<OutRow(n_row, "Updated", [fmt |-> "UPDATED ({diffs})", diffs |-> diffs])>>
             ELSE <<>>
    ELSE IF RenameBand(best.score)
    THEN <<OutRow(n_row, "Updated",
                  [fmt |-> "UPDATED (Name changed from '{old_name}' to '{new_name}')",
                   old_name |-> Get(olds[best.idx], "Production Name"),
                   new_name |-> Get(n_row, "Production Name")])>>
    ELSE <<OutRow(n_row, "New", [fmt |-> "NEW - from {new_label}", new_label |-> NewLabel])>>

\* only the confident branch sets '_matched'
TakesConfidentOnly(best) == Confident(best.score)

\* whether the pass marks its best match as matched
Takes(best) == Confident(best.score) \/ RenameBand(best.score)

\* no function is called on its own
CallIdle == arg = <<>> /\ ret = <<>>

\* extract_text_structured is not running
SegIdle ==
    /\ doc = <<>>
    /\ page_no = 1
    /\ cur_prod_lines = <<>>
    /\ all_prods = <<>>
    /\ page_dumps = <<>>
    /\ seg_out = <<>>

\* build_cmd is not running
BuildIdle ==
    /\ build_in = <<>>
    /\ blocks = <<>>
    /\ titles = <<>>
    /\ b_pos = 1
    /\ filtered_titles = <<>>
    /\ kept_rows = <<>>
    /\ build_out = <<>>

\* master_compare_cmd is not running
MasterIdle ==
    /\ master_rows = <<>>
    /\ weekly_rows = <<>>
    /\ base_titles = <<>>
    /\ region = <<>>
    /\ m_map = <<>>
    /\ w_map = <<>>
    /\ w_order = <<>>
    /\ w_pos = 1
    /\ diff_rows_master = <<>>
    /\ out_master = <<>>
    /\ summary_txt = <<>>
    /\ summary_acc = <<>>
    /\ regions_left = <<>>

CompareInit ==
    /\ pc = "compare"
    /\ \E run \in CompareRuns :
        /\ old_rows = run.old
        /\ new_rows = run.new
        /\ matched = [i \in DOMAIN run.old |-> FALSE]
    /\ n_idx = 1
    /\ o_idx = 1
    /\ out_rows = <<>>
    /\ out_csv = <<>>
    /\ MasterIdle
    /\ CallIdle
    /\ SegIdle
    /\ BuildIdle

\* one pass of 'for n_row in new_rows'
CompareNewRow ==
    /\ pc = "compare"
    /\ n_idx <= Len(new_rows)
    /\ LET n_row == new_rows[n_idx]
           best  == BestMatch(old_rows, matched, n_row)
       IN  /\ matched' = IF Takes(best) THEN [matched EXCEPT ![best.idx] = TRUE] ELSE matched
           /\ out_rows' = out_rows \o RowsForNew(n_row, best, old_rows)
    /\ n_idx' = n_idx + 1
    /\ UNCHANGED <<pc, old_rows, new_rows, o_idx, out_csv, masterVars, callVars, segVars, buildVars>>

\* one pass of the closing 'for o_row in old_rows'
CompareOldRow ==
    /\ pc = "compare"
    /\ n_idx > Len(new_rows)
    /\ o_idx <= Len(old_rows)
    /\ out_rows' =
         IF ~matched[o_idx]
         THEN Append(out_rows, OutRow(old_rows[o_idx], "Removed",
                                      [fmt |-> "REMOVED - from {old_label}", old_label |-> OldLabel]))
         ELSE out_rows
    /\ o_idx' = o_idx + 1
    /\ UNCHANGED <<pc, old_rows, new_rows, matched, n_idx, out_csv, masterVars, callVars, segVars, buildVars>>

\* the comparison CSV is written and compare_cmd returns
CompareWrite ==
    /\ pc = "compare"
    /\ n_idx > Len(new_rows)
    /\ o_idx > Len(old_rows)
    /\ out_csv' = out_rows
    /\ pc' = "done"
    /\ UNCHANGED <<old_rows, new_rows, matched, n_idx, o_idx, out_rows, masterVars, callVars, segVars, buildVars>>

(***************************************************************************)
(* master_compare_cmd                                                      *)
(***************************************************************************)
\* _read_titles_list: the lines of the file stripped, blank lines dropped
_read_titles_list(text) ==
    LET NotBlank(t) == t # <<>>
    IN  SelectSeq(<<>> \o [i \in DOMAIN SplitLines(text) |-> Strip(SplitLines(text)[i])], NotBlank)

\* baseline_index.get(k, 0): the dict comprehension keeps the last position
BaselinePos(base, k) ==
    LET hits == {i \in DOMAIN base : _norm_key(base[i]) = k}
    IN  IF hits = {} THEN 0 ELSE MaxOf(hits)

_region_from_master(rows) ==
    LET vals == {Strip(Get(rows[i], "Region")) : i \in DOMAIN rows} \ {<<>>}
    IN  IF Cardinality(vals) = 1 THEN CHOOSE v \in vals : TRUE ELSE <<>>

KeyOf(row) == _norm_key(Get(row, "Production Name"))

\* 'if k and k not in m_map: m_map[k] = r': the first record of each key
FirstByKey(rows) ==
    LET keys == {KeyOf(rows[i]) : i \in DOMAIN rows} \ {<<>>}
    IN  [k \in keys |-> rows[MinOf({i \in DOMAIN rows : KeyOf(rows[i]) = k})]]

\* w_order with 'w_order.append(k)' outside the 'k not in w_map' test: every
\* record's key, repeats included
KeyOrder_every(rows) ==
    LET Keyed(i) == KeyOf(rows[i]) # <<>>
        keyed == SelectSeq(Indices(rows), Keyed)
    IN  <<>> \o [n \in 1..Len(keyed) |-> KeyOf(rows[keyed[n]])]

\* w_order: the keys in the order of their first record
KeyOrder(rows) ==
    LET First(i) == KeyOf(rows[i]) # <<>> /\ \A j \in 1..(i - 1) : KeyOf(rows[j]) # KeyOf(rows[i])
        firsts == SelectSeq(Indices(rows), First)
    IN  <<>> \o [n \in 1..Len(firsts) |-> KeyOf(rows[firsts[n]])]

\* w_kept: the weekly rows of the region's bucket, all rows without a region
KeptWeekly(rows, rg) ==
    LET Kept(r) == rg = <<>> \/ region_bucket(Get(r, "City"), Get(r, "Province/State"),
                                               Get(r, "Country")) = rg
    IN  SelectSeq(rows, Kept)

\* ms and ws: the start of each side's Shooting Dates, else of its Start Month
\* 'if not (ms and ws)': each missing date is taken from the Start Month
WithFallback(ms, ws, master_record, weekly_record) ==
    IF ms = None \/ ws = None
    THEN << IF ms # None THEN ms
            ELSE _approx_start_date_from_start_month(Get(master_record, "Start Month")),
            IF ws # None THEN ws
            ELSE _approx_start_date_from_start_month(Get(weekly_record, "Start Month")) >>
    ELSE <<ms, ws>>

StartDates(master_record, weekly_record) ==
    WithFallback(_start_date_from_shooting_dates(Get(master_record, "Shooting Dates")),
                 _start_date_from_shooting_dates(Get(weekly_record, "Shooting Dates")),
                 master_record, weekly_record)

\* bool(ms and ws and ws > ms)
IsLater(sd) == sd[1] # None /\ sd[2] # None /\ DateLess(sd[1], sd[2])

Pushed(master_record, weekly_record) == IsLater(StartDates(master_record, weekly_record))

s_Yes == <<"Y","e","s">>

\* output_row: the weekly record with Category, Notes and, when pushed, the
\* "If It Was Pushed" column set
OutputRow(weekly_record, category, notes, pushed) ==
    [row |-> IF pushed THEN With(weekly_record, "If It Was Pushed", s_Yes) ELSE weekly_record,
     Category |-> category, Notes |-> notes]

\* to_master_row: the columns of MASTER_SCHEMA that come from the columns
\* of the model's rows; Notes is not a column of the master schema
to_master_row(output_row, issue_link) ==
    LET row == output_row.row
    IN  [ RegionBucket |-> region_bucket(Get(row, "City"), Get(row, "Province/State"),
                                         Get(row, "Country")),
          Category |-> output_row.Category,
          ProductionName |-> Get(row, "Production Name"),
          IssueLink |-> issue_link,
          StartMonth |-> Get(row, "Start Month"),
          ShootingDates |-> Get(row, "Shooting Dates"),
          DatePushedBack |-> Get(row, "If It Was Pushed"),
          Description |-> Get(row, "Description"),
          City |-> Get(row, "City"),
          ProvinceState |-> Get(row, "Province/State"),
          Country |-> Get(row, "Country"),
          Type |-> Get(row, "Type"),
          DirectorProducer |-> Get(row, "Director/Producer") ]

\* the rows one pass of 'for k in w_order' appends
\* the row of a record found in both files: written only when diffs is not
\* empty
UpdatedRows(weekly_record, diffs, pos, pushed) ==
    IF diffs # <<>>
    THEN <<to_master_row(
             OutputRow(weekly_record, "Updated vs Master",
                       [fmt |-> "UPDATED vs Master ({diffs}) - Prod. #{pos:03d} ({weekly_label})",
                        diffs |-> diffs, pos |-> pos, weekly_label |-> WeeklyLabel,
                        pushed |-> pushed],
                       pushed),
             WeeklyLabel)>>
    ELSE <<>>

NewRows(weekly_record, pos) ==
    <<to_master_row(
        OutputRow(weekly_record, "New to Master",
                  [fmt |-> "NEW to Master - Prod. #{pos:03d} ({weekly_label})",
                   pos |-> pos, weekly_label |-> WeeklyLabel],
                  FALSE),
        WeeklyLabel)>>

MasterRowsFor(k, masters, weeklies, base) ==
    IF k \in DOMAIN masters
    THEN UpdatedRows(weeklies[k], _changed_vs_master(masters[k], weeklies[k]),
                     BaselinePos(base, k), Pushed(masters[k], weeklies[k]))
    ELSE NewRows(weeklies[k], BaselinePos(base, k))

\* score of _collapse_dupes: how many of the seven fields are filled.  No
\* command calls _collapse_dupes.
score(row) ==
    Cardinality({f \in {"Shooting Dates", "Description", "Director/Producer", "All Locations",
                        "City", "Province/State", "Country"} :
                    Strip(Get(row, f)) # <<>> /\ Strip(Get(row, f)) # s_NA})

\* _truthy
Truthy(v) == Lower(Strip(v)) \in {<<"y">>, <<"y","e","s">>, <<"t","r","u","e">>, <<"1">>}

s_All == <<"A","l","l">>
s_AllRegions == <<"A","l","l"," ","R","e","g","i","o","n","s">>
s_ALL_REGIONS == <<"A","L","L"," ","R","E","G","I","O","N","S">>

\* safe_region: the region label as it goes into the name of the VS_MASTER file
safe_region(rg) ==
    LET label == IF rg = <<>> THEN s_All ELSE rg
    IN  [i \in DOMAIN label |-> IF label[i] \in {" ", "/", "\\", ":"} THEN "_" ELSE label[i]]

\* dict.get(key, default)
DictGet(d, key, default) == IF key \in DOMAIN d THEN d[key] ELSE default

\* number of rows of the file whose 'Date Pushed Back?' is truthy
pushed_count(rows) == Cardinality({i \in DOMAIN rows : Truthy(rows[i].DatePushedBack)})

\* the entry of one call in summary_acc["files"]
FileEntry(rg) ==
    [region |-> IF rg = <<>> THEN s_AllRegions ELSE rg, master_compare |-> safe_region(rg)]

\* batch mode: total_pw is set by the first call only, pushed_total is summed
Accumulated(acc, base, rows, rg) ==
    [total_pw |-> DictGet(acc, "total_pw", Len(base)),
     pushed_total |-> DictGet(acc, "pushed_total", 0) + pushed_count(rows),
     files |-> DictGet(acc, "files", <<>>) \o <<FileEntry(rg)>>]

\* the per-region summary of a single call
RegionSummary(base, rows, rg) ==
    [scope |-> IF rg = <<>> THEN s_AllRegions ELSE rg,
     total_pw |-> Len(base),
     pushed_count |-> pushed_count(rows),
     files |-> <<FileEntry(rg)>>]

\* the one summary of the batch
CombinedSummary(acc) ==
    [scope |-> s_ALL_REGIONS,
     total_pw |-> DictGet(acc, "total_pw", 0),
     pushed_count |-> DictGet(acc, "pushed_total", 0),
     files |-> DictGet(acc, "files", <<>>)]

\* a single call has no dict and the region chosen; the batch starts with an
\* empty dict and the first key of REGION_FILE_MAP
MasterInit ==
    /\ pc = "master_load"
    /\ \E run \in MasterRuns :
        /\ master_rows = run.master
        /\ weekly_rows = run.weekly
        /\ base_titles = _read_titles_list(run.baseline)
        /\ region = IF run.batch THEN Head(REGION_KEYS) ELSE run.region
        /\ summary_acc = IF run.batch THEN <<(<<>>)>> ELSE <<>>
        /\ regions_left = IF run.batch THEN Tail(REGION_KEYS) ELSE <<>>
    /\ m_map = <<>>
    /\ w_map = <<>>
    /\ w_order = <<>>
    /\ w_pos = 1
    /\ diff_rows_master = <<>>
    /\ out_master = <<>>
    /\ summary_txt = <<>>
    /\ old_rows = <<>>
    /\ new_rows = <<>>
    /\ matched = <<>>
    /\ n_idx = 1
    /\ o_idx = 1
    /\ out_rows = <<>>
    /\ out_csv = <<>>
    /\ CallIdle
    /\ SegIdle
    /\ BuildIdle

\* the region is settled and the two maps are built
MasterLoad ==
    /\ pc = "master_load"
    /\ LET rg == IF region = <<>> THEN _region_from_master(master_rows) ELSE region
           w_kept == KeptWeekly(weekly_rows, rg)
       IN  /\ region' = rg
           /\ m_map' = FirstByKey(master_rows)
           /\ w_map' = FirstByKey(w_kept)
           /\ w_order' = KeyOrder(w_kept)
    /\ pc' = "master_compare"
    /\ UNCHANGED <<master_rows, weekly_rows, base_titles, w_pos, diff_rows_master,
                   out_master, summary_txt, summary_acc, regions_left,
                   compareVars, callVars, segVars, buildVars>>

\* one pass of 'for k in w_order'
MasterCompareKey ==
    /\ pc = "master_compare"
    /\ w_pos <= Len(w_order)
    /\ diff_rows_master' =
         diff_rows_master \o MasterRowsFor(w_order[w_pos], m_map, w_map, base_titles)
    /\ w_pos' = w_pos + 1
    /\ UNCHANGED <<pc, master_rows, weekly_rows, base_titles, region, m_map, w_map, w_order,
                   out_master, summary_txt, summary_acc, regions_left,
                   compareVars, callVars, segVars, buildVars>>

\* the VS_MASTER CSV of the region is written and the command returns: with
\* no summary_acc it writes the summary of the region, with one it writes no
\* summary and adds its metrics to the dict
MasterWrite ==
    /\ pc = "master_compare"
    /\ w_pos > Len(w_order)
    /\ out_master' = diff_rows_master
    /\ IF summary_acc = <<>>
       THEN /\ summary_txt' = RegionSummary(base_titles, diff_rows_master, region)
            /\ summary_acc' = summary_acc
            /\ pc' = "done"
       ELSE /\ summary_txt' = summary_txt
            /\ summary_acc' = <<Accumulated(summary_acc[1], base_titles, diff_rows_master, region)>>
            /\ pc' = "master_returned"
    /\ UNCHANGED <<master_rows, weekly_rows, base_titles, region, m_map, w_map, w_order, w_pos,
                   diff_rows_master, regions_left, compareVars, callVars, segVars, buildVars>>

\* 'for reg in REGION_FILE_MAP.keys()': the next call of the batch, on the
\* same files and the same dict
MasterNextRegion ==
    /\ pc = "master_returned"
    /\ regions_left # <<>>
    /\ region' = Head(regions_left)
    /\ regions_left' = Tail(regions_left)
    /\ m_map' = <<>>
    /\ w_map' = <<>>
    /\ w_order' = <<>>
    /\ w_pos' = 1
    /\ diff_rows_master' = <<>>
    /\ pc' = "master_load"
    /\ UNCHANGED <<master_rows, weekly_rows, base_titles, out_master, summary_txt, summary_acc,
                   compareVars, callVars, segVars, buildVars>>

\* the batch is over: one combined summary is written
MasterCombinedSummary ==
    /\ pc = "master_returned"
    /\ regions_left = <<>>
    /\ summary_txt' = CombinedSummary(summary_acc[1])
    /\ pc' = "done"
    /\ UNCHANGED <<master_rows, weekly_rows, base_titles, region, m_map, w_map, w_order, w_pos,
                   diff_rows_master, out_master, summary_acc, regions_left,
                   compareVars, callVars, segVars, buildVars>>

Init == CompareInit

Next == CompareNewRow \/ CompareOldRow \/ CompareWrite

Spec == Init /\ [][Next]_vars

InitMaster == MasterInit

NextMaster ==
    MasterLoad \/ MasterCompareKey \/ MasterWrite \/ MasterNextRegion \/ MasterCombinedSummary

SpecMaster == InitMaster /\ [][NextMaster]_vars

(***************************************************************************)
(* Functions called on their own: the argument is drawn from a bounded set *)
(* and every call appends what the function returns to ret.                *)
(***************************************************************************)
\* compare_cmd is not running
CompareIdle ==
    /\ old_rows = <<>>
    /\ new_rows = <<>>
    /\ matched = <<>>
    /\ n_idx = 1
    /\ o_idx = 1
    /\ out_rows = <<>>
    /\ out_csv = <<>>

\* all the concatenations of at most n members of S
RECURSIVE Concats(_, _)
Concats(S, n) ==
    IF n = 0 THEN {<<>>}
    ELSE Concats(S, n - 1) \cup {a \o b : a \in Concats(S, n - 1), b \in S}

\* titles are put together from these pieces
MaxPieces == 3

TitlePieces ==
    { <<"A", "b">>, <<" ">>, <<" ", "(", "a", "k", "a", ":", " ", "x">>,
      <<"(", "W", "/", " ", "t">>, <<"(", "a", ".", "k", ".", "a", ".">>, <<")">>,
      <<"U+00E9">>, <<"U+2019">>, <<"1">>, <<"!">> }

KeyTitles == Concats(TitlePieces, MaxPieces)

NormKeyInit ==
    /\ pc = "norm_key"
    /\ arg \in KeyTitles
    /\ ret = <<>>
    /\ CompareIdle
    /\ MasterIdle
    /\ SegIdle
    /\ BuildIdle

\* the key of the title, then the key of that key
NormKeyCall ==
    /\ pc = "norm_key"
    /\ Len(ret) < 2
    /\ ret' = Append(ret, _norm_key(IF ret = <<>> THEN arg ELSE ret[Len(ret)]))
    /\ UNCHANGED <<pc, arg, compareVars, masterVars, segVars, buildVars>>

SpecNormKey == NormKeyInit /\ [][NormKeyCall]_vars

(***************************************************************************)
(* The span parsers called on their own.  The argument is the parts of a   *)
(* span text: first month, first day, first year with its separator (or    *)
(* nothing), dash, second month, second day, separator before the last     *)
(* year, last year.                                                        *)
(***************************************************************************)
SpanFirstMonths == {MonthNames[2], MonthNames[3], MonthNames[11], <<"M", "a", "r">>}

SpanFirstDays == {<<"1">>, <<"3">>, <<"2", "9">>}

SpanFirstYears == {<<>>, <<",", " ", "2", "0", "2", "6">>, <<",", " ", "2", "0", "2", "9">>}

SpanDashes == {<<" ", "-", " ">>, <<EnDash>>}

SpanLastMonths == {MonthNames[2], MonthNames[3], MonthNames[5]}

SpanLastDays == {<<"3">>, <<"1", "5">>, <<"2", "9">>}

SpanCommas == {<<",", " ">>, <<" ">>}

SpanLastYears == {<<"2", "0", "2", "6">>, <<"2", "0", "2", "8">>}

SpanParts ==
    SpanFirstMonths \X SpanFirstDays \X SpanFirstYears \X SpanDashes
        \X SpanLastMonths \X SpanLastDays \X SpanCommas \X SpanLastYears

\* the text the parts spell
SpanInput(p) == p[1] \o <<" ">> \o p[2] \o p[3] \o p[4] \o p[5] \o <<" ">> \o p[6] \o p[7] \o p[8]

DatesInit ==
    /\ pc = "dates"
    /\ arg \in SpanParts
    /\ ret = <<>>
    /\ CompareIdle
    /\ MasterIdle
    /\ SegIdle
    /\ BuildIdle

\* _parse_block_to_row reads the span of the block text
DatesParseRange ==
    /\ pc = "dates"
    /\ Len(ret) = 0
    /\ ret' = <<_parse_date_range(SpanInput(arg))>>
    /\ UNCHANGED <<pc, arg, compareVars, masterVars, segVars, buildVars>>

\* and computes the production length from the two dates
DatesLength ==
    /\ pc = "dates"
    /\ Len(ret) = 1
    /\ ret' = Append(ret, _inclusive_days(ret[1][2], ret[1][3]))
    /\ UNCHANGED <<pc, arg, compareVars, masterVars, segVars, buildVars>>

\* the display text of the span is parsed again
DatesReparse ==
    /\ pc = "dates"
    /\ Len(ret) = 2
    /\ ret' = Append(ret, _parse_date_range(ret[1][1]))
    /\ UNCHANGED <<pc, arg, compareVars, masterVars, segVars, buildVars>>

\* the other span parser reads the same text
DatesParseFlexible ==
    /\ pc = "dates"
    /\ Len(ret) = 3
    /\ ret' = Append(ret, _parse_span_flexible(SpanInput(arg)))
    /\ UNCHANGED <<pc, arg, compareVars, masterVars, segVars, buildVars>>

\* master_compare_cmd reads the start date of the Shooting Dates text of the
\* row
DatesStartDate ==
    /\ pc = "dates"
    /\ Len(ret) = 4
    /\ ret' = Append(ret, _start_date_from_shooting_dates(ret[1][1]))
    /\ UNCHANGED <<pc, arg, compareVars, masterVars, segVars, buildVars>>

SpecDates ==
    DatesInit /\ [][DatesParseRange \/ DatesLength \/ DatesReparse \/ DatesParseFlexible
                        \/ DatesStartDate]_vars

(***************************************************************************)
(* region_bucket called on its own                                         *)
(***************************************************************************)
\* the Province/State, Country and City columns as the record builder and the
\* sheets write them: codes, full names, several locations joined by "+"
BucketCities ==
    { <<>>,
      <<"V","a","n","c","o","u","v","e","r">> }

\* codes in either case, full names, none, an unknown code
BucketRegions ==
    { <<"B","C">>,
      <<"b","c">>,
      <<" ","B","C"," ","+"," ","O","N">>,
      <<"Q","C">>,
      <<"O","N">>,
      <<>>,
      <<"C","A">>,
      <<"N","S","W">>,
      <<"Z","Z">>,
      <<"Q","u","e","b","e","c">>,
      <<"B","r","i","t","i","s","h"," ","C","o","l","u","m","b","i","a">>,
      <<"O","n","t","a","r","i","o">> }

\* names, aliases, none, an unknown name
BucketCountries ==
    { <<"C","a","n","a","d","a">>,
      <<"c","a","n","a","d","a">>,
      <<"U","S","A">>,
      <<"U","n","i","t","e","d"," ","S","t","a","t","e","s">>,
      <<"U","S">>,
      <<>>,
      <<" "," ">>,
      <<"I","r","e","l","a","n","d">>,
      <<"N","a","r","n","i","a">>,
      <<"C","a","n","a","d","a"," ","+"," ","U","S","A">>,
      <<"F","r","a","n","c","e">>,
      <<"A","u","s","t","r","a","l","i","a">> }

RegionInit ==
    /\ pc = "region"
    /\ arg \in BucketCities \X BucketRegions \X BucketCountries
    /\ ret = <<>>
    /\ CompareIdle
    /\ MasterIdle
    /\ SegIdle
    /\ BuildIdle

RegionBucketCall ==
    /\ pc = "region"
    /\ ret = <<>>
    /\ ret' = <<region_bucket(arg[1], arg[2], arg[3])>>
    /\ UNCHANGED <<pc, arg, compareVars, masterVars, segVars, buildVars>>

SpecRegion == RegionInit /\ [][RegionBucketCall]_vars

(***************************************************************************)
(* extract_text_structured on its own.  The document is drawn from pages   *)
(* of placed blocks; every line of a block carries the number of its page, *)
(* so that the page a line of a production came from can be read off the   *)
(* production.                                                             *)
(***************************************************************************)
MaxPages == 2

MaxDocBlocks == 3

\* page.rect.width of a Letter page
PageWidth == 612

\* the default of the columns parameter
Columns == "auto"

\* the blocks a page is drawn from, as the block loop gathers them: a bold
\* quoted title and a body in the left column whose one line text holds a
\* blank line between two lines, a body at the top of the
\* right column, a header line, a bold line in capitals on the right, a block
\* across the midline that starts where the body starts and has a header
\* line as its second line, and a block whose first line is a header line
PageBlocks(p) ==
    << [x0 |-> 50, y0 |-> 10, x1 |-> 250, max_size |-> 12, is_bold |-> TRUE,
        lines |-> << <<"\"","T">> \o IntStr(p) \o <<"\""," ","S","e","r","i","e","s">> >>],
       [x0 |-> 50, y0 |-> 20, x1 |-> 250, max_size |-> 10, is_bold |-> FALSE,
        lines |-> << <<"b","o","d","y"," ">> \o IntStr(p) \o <<"\n", " ", "\n">>
                        \o <<"m","o","r","e"," ">> \o IntStr(p) >>],
       [x0 |-> 330, y0 |-> 5, x1 |-> 530, max_size |-> 10, is_bold |-> FALSE,
        lines |-> << <<"r","i","g","h","t"," ">> \o IntStr(p) >>],
       [x0 |-> 50, y0 |-> 5, x1 |-> 250, max_size |-> 10, is_bold |-> FALSE,
        lines |-> << <<"L","A","S","T"," ","U","P","D","A","T","E","D",":"," ">> \o IntStr(p) >>],
       [x0 |-> 330, y0 |-> 15, x1 |-> 530, max_size |-> 12, is_bold |-> TRUE,
        lines |-> << <<"G","A","M","M","A"," ">> \o IntStr(p) >>],
       [x0 |-> 50, y0 |-> 20, x1 |-> 400, max_size |-> 10, is_bold |-> FALSE,
        lines |-> << <<"n","o","t","e"," ">> \o IntStr(p),
                     <<"L","A","S","T"," ","U","P","D","A","T","E","D",":"," ">> \o IntStr(p) >>],
       [x0 |-> 50, y0 |-> 30, x1 |-> 250, max_size |-> 10, is_bold |-> FALSE,
        lines |-> << <<"i","s","s","u","e"," ">> \o IntStr(p), <<"c","a","s","t"," ">> \o IntStr(p) >>] >>

\* the blocks of page p among the placed blocks, in the order of the file
BlocksOfPage(p, pages, kinds) ==
    LET OnPage(i) == pages[i] = p
        at == SelectSeq([i \in DOMAIN pages |-> i], OnPage)
    IN  [k \in DOMAIN at |-> PageBlocks(p)[kinds[at[k]]]]

SegState(st) ==
    /\ cur_prod_lines' = st.cur
    /\ all_prods' = st.prods

\* what is written after the loop over the pages
SegOutput(prods) ==
    [structured |-> Join(prods, <<"\n", "\n">> \o PROD_BREAK \o <<"\n", "\n">>),
     prod_files |-> prods]

ExtractInit ==
    /\ pc = "extract"
    /\ \E n \in 1..MaxPages : \E len \in 0..MaxDocBlocks :
         \E pages \in [1..len -> 1..n] : \E kinds \in [1..len -> DOMAIN PageBlocks(1)] :
            /\ \A i \in 1..(len - 1) : pages[i] <= pages[i + 1]
            /\ doc = [p \in 1..n |-> BlocksOfPage(p, pages, kinds)]
    /\ page_no = 1
    /\ cur_prod_lines = <<>>
    /\ all_prods = <<>>
    /\ page_dumps = <<>>
    /\ seg_out = <<>>
    /\ CompareIdle
    /\ MasterIdle
    /\ CallIdle
    /\ BuildIdle

\* one pass of 'for page in doc': the lines of the page, the page dump and
\* the production break at the page boundary
ExtractPage ==
    /\ pc = "extract"
    /\ page_no <= Len(doc)
    /\ SegState(FeedPage([cur |-> cur_prod_lines, prods |-> all_prods],
                         doc[page_no], Columns, PageWidth))
    /\ page_dumps' = Append(page_dumps, PageDump(doc[page_no], Columns, PageWidth))
    /\ page_no' = page_no + 1
    /\ UNCHANGED <<pc, doc, seg_out, compareVars, masterVars, callVars, buildVars>>

\* after the last page: the last production is flushed, the structured file
\* and the per-production files are written
ExtractWrite ==
    /\ pc = "extract"
    /\ page_no > Len(doc)
    /\ all_prods' = CloseProd(cur_prod_lines, all_prods)
    /\ seg_out' = SegOutput(CloseProd(cur_prod_lines, all_prods))
    /\ pc' = "done"
    /\ UNCHANGED <<doc, page_no, cur_prod_lines, page_dumps, compareVars, masterVars,
                   callVars, buildVars>>

SpecExtract == ExtractInit /\ [][ExtractPage \/ ExtractWrite]_vars

(***************************************************************************)
(* build_cmd on its own, over a folder of per-production files or over a   *)
(* structured file.                                                        *)
(***************************************************************************)
MaxBlocks == 3

\* the productions the input is put together from: a series with shooting
\* dates, a film that names Hallmark, a block that begins with a body line,
\* a series whose body has "gaf" inside a word, a title in curly quotes
\* without title marker, a series with an alias on its second line, and a
\* series with an alias on its title line that names Hallmark
BlockPool ==
    { <<"#","#","#"," ","\"","A","l","p","h","a","\""," ","S","e","r","i","e","s","\n",
        "s","h","o","o","t","s"," ","i","n"," ","V","a","n","c","o","u","v","e","r","\n",
        "M","a","r","c","h"," ","1"," ","-"," ","M","a","r","c","h"," ","3",","," ","2","0","2","6">>,
      <<"#","#","#"," ","\"","H","o","l","l","y","\""," ","F","e","a","t","u","r","e"," ",
        "F","i","l","m","\n","a"," ","H","a","l","l","m","a","r","k"," ","f","i","l","m">>,
      <<"s","h","o","o","t","s"," ","i","n"," ","V","a","n","c","o","u","v","e","r">>,
      <<"#","#","#"," ","\"","B","e","t","a","\""," ","S","e","r","i","e","s","\n",
        "G","a","f","f","e","r",":"," ","x">>,
      <<"U+201C","G","a","m","m","a","U+201D"," "," ","P","i","l","o","t">>,
      <<"#","#","#"," ","\"","A","l","i","a","s","\""," ","S","e","r","i","e","s","\n","a","k","a"," ","\"","O","t","h","e","r"," ","N","a","m","e","\"","\n","b","o","d","y">>,
      <<"#","#","#"," ","\"","H","a","l","l","\""," ","S","e","r","i","e","s"," ","a","k","a"," ","H","o","l","l","y","\n","a"," ","H","a","l","l","m","a","r","k"," ","f","i","l","m">> }

\* load_blocks: the blocks of the input
BlocksOfInput(in) ==
    IF in.kind = "folder" THEN _load_from_productions_folder(in.files)
    ELSE _load_from_structured(Join(in.files, <<"\n", "\n">> \o PROD_BREAK \o <<"\n", "\n">>))

\* the three files build_cmd writes
BuildOutput(rows, all_titles, filtered) ==
    [csv |-> rows,
     baseline |-> Join(all_titles, <<"\n">>),
     filtered |-> Join(filtered, <<"\n">>)]

\* the body of 'for b in blocks' for the parsed block p
BuildStep(p) ==
    IF p.is_excluded
    THEN /\ filtered_titles' = Append(filtered_titles, p.title)
         /\ UNCHANGED kept_rows
    ELSE /\ kept_rows' = Append(kept_rows, fill_na(p.row))
         /\ UNCHANGED filtered_titles

BuildInit ==
    /\ pc = "build"
    /\ \E kind \in {"folder", "structured"} : \E len \in 0..MaxBlocks :
         \E files \in [1..len -> BlockPool] :
            /\ build_in = [kind |-> kind, files |-> files]
    /\ blocks = <<>>
    /\ titles = <<>>
    /\ b_pos = 1
    /\ filtered_titles = <<>>
    /\ kept_rows = <<>>
    /\ build_out = <<>>
    /\ CompareIdle
    /\ MasterIdle
    /\ CallIdle
    /\ SegIdle

\* blocks, titles = load_blocks(input_path)
BuildLoad ==
    /\ pc = "build"
    /\ blocks' = BlocksOfInput(build_in)
    /\ titles' = TitlesOfBlocks(BlocksOfInput(build_in))
    /\ pc' = "build_loop"
    /\ UNCHANGED <<build_in, b_pos, filtered_titles, kept_rows, build_out, compareVars,
                   masterVars, callVars, segVars>>

\* one pass of 'for b in blocks'
BuildBlock ==
    /\ pc = "build_loop"
    /\ b_pos <= Len(blocks)
    /\ BuildStep(_parse_block_to_row(blocks[b_pos]))
    /\ b_pos' = b_pos + 1
    /\ UNCHANGED <<pc, build_in, blocks, titles, build_out, compareVars, masterVars,
                   callVars, segVars>>

\* after the loop: the CSV, the baseline titles and the filtered titles
BuildWrite ==
    /\ pc = "build_loop"
    /\ b_pos > Len(blocks)
    /\ build_out' = BuildOutput(kept_rows, titles, filtered_titles)
    /\ pc' = "done"
    /\ UNCHANGED <<build_in, blocks, titles, b_pos, filtered_titles, kept_rows, compareVars,
                   masterVars, callVars, segVars>>

SpecBuild == BuildInit /\ [][BuildLoad \/ BuildBlock \/ BuildWrite]_vars

(***************************************************************************)
(* _status_and_location_from_lines on its own: arg is the lines of the     *)
(* block, ret the values of (status_val, location_val) after each line     *)
(* that the loop has scanned.                                              *)
(***************************************************************************)
MaxLines == 3

l_StatusMarch == <<"S","T","A","T","U","S",":"," ","M","a","r","c","h"," ","2","0","2","6">>

l_StatusApril == <<"S","T","A","T","U","S",":"," ","A","p","r","i","l"," ","2","0","2","6">>

l_LocationVancouver == <<"L","O","C","A","T","I","O","N","(","S",")",":"," ","V","a","n","c","o","u","v","e","r",","," ","B","C">>

l_LocationToronto == <<"L","O","C","A","T","I","O","N","S",":"," ","T","o","r","o","n","t","o",","," ","O","N">>

l_StatusMayLocationMontreal == <<"S","T","A","T","U","S",":"," ","M","a","y"," ","2","0","2","6"," ","L","O","C","A","T","I","O","N",":"," ","M","o","n","t","r","e","a","l",","," ","Q","C">>

l_StatusJune == <<"S","t","a","t","u","s"," ","-"," ","J","u","n","e">>

l_LocationBare == <<"L","O","C","A","T","I","O","N">>

l_Shoots == <<"s","h","o","o","t","s"," ","V","a","n","c","o","u","v","e","r">>

l_StatusEmpty == <<"S","T","A","T","U","S",":">>

\* the lines a block is put together from
ScanPool ==
    {l_StatusMarch,
     l_StatusApril,
     l_LocationVancouver,
     l_LocationToronto,
     l_StatusMayLocationMontreal,
     l_StatusJune,
     l_LocationBare,
     l_Shoots,
     l_StatusEmpty}

NothingFound == [status_val |-> <<>>, location_val |-> <<>>]

\* the values the loop holds now
ScanValues == IF ret = <<>> THEN NothingFound ELSE ret[Len(ret)]

ScanInit ==
    /\ pc = "scan"
    /\ arg \in SeqsUpTo(ScanPool, MaxLines)
    /\ ret = <<>>
    /\ CompareIdle
    /\ MasterIdle
    /\ SegIdle
    /\ BuildIdle

\* one pass of 'for i, ln in enumerate(lines)'
ScanNextLine ==
    /\ pc = "scan"
    /\ Len(ret) < Len(arg)
    /\ ~BothFound(ScanValues)
    /\ ret' = Append(ret, ScanLine(ScanValues, arg, Len(ret) + 1, Strip(Upper(arg[Len(ret) + 1]))))
    /\ UNCHANGED <<pc, arg, compareVars, masterVars, segVars, buildVars>>

\* the loop is left, by break or at the last line, and the values returned
ScanReturn ==
    /\ pc = "scan"
    /\ Len(ret) = Len(arg) \/ BothFound(ScanValues)
    /\ pc' = "scan_done"
    /\ UNCHANGED <<arg, ret, compareVars, masterVars, segVars, buildVars>>

SpecScan == ScanInit /\ [][ScanNextLine \/ ScanReturn]_vars

(***************************************************************************)
(* The inputs of a master compare run: resolve_run_folder on the weekly    *)
(* run folder, then the choice of the master CSV in master_compare_cmd.    *)
(* arg is the run folder, the master directory and the region; ret holds   *)
(* the outcome of each of the two steps.                                   *)
(***************************************************************************)
MaxMasterFiles == 2

f_FullSchema == <<"_","F","u","l","l","S","c","h","e","m","a",".","c","s","v">>

f_Baseline == <<"_","b","a","s","e","l","i","n","e","_","t","i","t","l","e","s",".","t","x","t">>

\* the files of a weekly run folder
f_WeeklyCsv == <<"P","W","_","F","u","l","l","S","c","h","e","m","a",".","c","s","v">>

f_WeeklyTwice == <<"P","W","_","F","u","l","l","S","c","h","e","m","a","_","v","2","_","F","u","l","l","S","c","h","e","m","a",".","c","s","v">>

f_WeeklyBaseline == <<"P","W","_","b","a","s","e","l","i","n","e","_","t","i","t","l","e","s",".","t","x","t">>

\* the stems of the CSV files a master directory is drawn from
MasterStems ==
    {<<"M","a","s","t","e","r","_","W","e","s","t"," ","C","o","a","s","t"," ","C","A">>,
     <<"M","a","s","t","e","r","_","Q","u","e","b","e","c">>,
     <<"I","r","e","l","a","n","d","_","H","u","n","g","a","r","y">>,
     <<"n","o","t","e","s">>}

\* REGION_FILE_MAP.get(rg, rg), for the regions of the model
REGION_FILE_MAP(rg) ==
    IF rg = b_WestCoastCanada THEN <<"W","e","s","t"," ","C","o","a","s","t"," ","C","A">>
    ELSE IF rg = b_EastCoastCanada THEN <<"E","a","s","t"," ","C","o","a","s","t"," ","C","A">>
    ELSE IF rg = b_IrelandHungary THEN <<"I","r","e","l","a","n","d","_","H","u","n","g","a","r","y">>
    ELSE IF rg = b_AustraliaNewZealand THEN <<"A","u","s","t","r","a","l","i","a","_","N","e","w","Z","e","a","l","a","n","d">>
    ELSE IF rg = b_EuropeOther THEN <<"E","u","r","o","p","e","_","O","t","h","e","r">>
    ELSE rg

\* .lower().replace(" ", "").replace("_", "").replace("-", "")
FileKey(s) ==
    LET Kept(c) == c \notin {" ", "_", "-"}
    IN  SelectSeq(Lower(s), Kept)

\* the name ends with the suffix
EndsWith(s, suffix) ==
    Len(suffix) <= Len(s) /\ SubSeq(s, Len(s) - Len(suffix) + 1, Len(s)) = suffix

\* run_dir.glob(pattern), the pattern being "*" and a suffix
Glob(files, suffix) ==
    LET Hit(f) == EndsWith(f, suffix)
    IN  SelectSeq(files, Hit)

Raised == [raised |-> TRUE, value |-> <<>>]

Returned(v) == [raised |-> FALSE, value |-> v]

\* csv_path.stem.replace("_FullSchema", ""): the name without ".csv" and
\* without any occurrence of "_FullSchema"
LabelOf(name) ==
    Join(SplitBy(SubSeq(name, 1, Len(name) - 4), SubSeq(f_FullSchema, 1, Len(f_FullSchema) - 4)), <<>>)

\* resolve_run_folder: (csv, baseline, label), or FileNotFoundError
resolve_run_folder(files) ==
    IF Glob(files, f_FullSchema) = <<>> \/ Glob(files, f_Baseline) = <<>> THEN Raised
    ELSE Returned([csv |-> Glob(files, f_FullSchema)[1],
                   baseline |-> Glob(files, f_Baseline)[1],
                   label |-> LabelOf(Glob(files, f_FullSchema)[1])])

\* the candidates whose stem contains the region key
MatchingMasters(candidates, target) ==
    LET Hit(f) == target # <<>> /\ Contains(FileKey(f), target)
    IN  SelectSeq(candidates, Hit)

\* the master CSV of master_compare_cmd for a directory: the first file that
\* matches the region, else the first file, FileNotFoundError without files
MasterCsvOf(candidates, target) ==
    IF candidates = <<>> THEN Raised
    ELSE IF MatchingMasters(candidates, target) # <<>>
    THEN Returned(MatchingMasters(candidates, target)[1])
    ELSE Returned(candidates[1])

ResolveInit ==
    /\ pc = "resolve"
    /\ \E run \in {<<>>, <<f_WeeklyCsv>>, <<f_WeeklyBaseline>>, <<f_WeeklyBaseline, f_WeeklyCsv>>,
                   <<f_WeeklyBaseline, f_WeeklyTwice>>} :
         \E master \in SeqsUpTo(MasterStems, MaxMasterFiles) :
           \E rg \in {<<>>, b_Quebec, b_WestCoastCanada, b_IrelandHungary, b_Other} :
              arg = [run |-> run, master |-> master, region |-> rg]
    /\ ret = <<>>
    /\ CompareIdle
    /\ MasterIdle
    /\ SegIdle
    /\ BuildIdle

\* weekly_csv, weekly_baseline, weekly_label = resolve_run_folder(weekly_dir)
ResolveRunFolder ==
    /\ pc = "resolve"
    /\ ret = <<>>
    /\ ret' = <<resolve_run_folder(arg.run)>>
    /\ pc' = IF resolve_run_folder(arg.run).raised THEN "aborted" ELSE "resolve"
    /\ UNCHANGED <<arg, compareVars, masterVars, segVars, buildVars>>

\* the head of master_compare_cmd, up to the choice of the master CSV
ResolveMasterCsv ==
    /\ pc = "resolve"
    /\ Len(ret) = 1
    /\ ret' = Append(ret, MasterCsvOf(arg.master, FileKey(REGION_FILE_MAP(arg.region))))
    /\ pc' = IF arg.master = <<>> THEN "aborted" ELSE "resolved"
    /\ UNCHANGED <<arg, compareVars, masterVars, segVars, buildVars>>

SpecResolve == ResolveInit /\ [][ResolveRunFolder \/ ResolveMasterCsv]_vars

(***************************************************************************)
(* _city_state_country_from_location and region_bucket on a Location       *)
(* text: the record builder parses the text into City, Province/State and  *)
(* Country, and to_master_row buckets the three.  The text names one site  *)
(* or several separated by " / ".                                          *)
(***************************************************************************)
MaxSites == 2

l_VancouverBC == <<"V","a","n","c","o","u","v","e","r",","," ","B","C">>
l_VancouverWA == <<"V","a","n","c","o","u","v","e","r",","," ","W","A">>
l_PortlandOR == <<"P","o","r","t","l","a","n","d",","," ","O","R">>
l_AustinTexas == <<"A","u","s","t","i","n",","," ","T","e","x","a","s">>
l_PerthWA == <<"P","e","r","t","h",","," ","W","e","s","t","e","r","n"," ","A","u","s","t","r","a","l","i","a">>
l_France == <<"F","r","a","n","c","e">>
l_BC == <<"B","C">>
l_SmallvilleNowhere == <<"S","m","a","l","l","v","i","l","l","e",","," ","N","o","w","h","e","r","e">>
l_Boston == <<"B","o","s","t","o","n">>
l_Toronto == <<"T","o","r","o","n","t","o">>

\* a city with its province, the same city name with a state of another
\* country, cities that are no hub with an abbreviation and with full
\* names, a country, a region, an unknown place, a hub city by itself, a
\* city of the gazetteer
SitePool ==
    { l_Boston, l_VancouverBC,
      l_VancouverWA,
      l_PortlandOR,
      l_AustinTexas,
      l_PerthWA,
      l_France,
      l_BC,
      l_SmallvilleNowhere,
      l_Toronto }

LocationTexts ==
    {Join(s, <<" ", "/", " ">>) : s \in UNION {[1..k -> SitePool] : k \in 1..MaxSites}}

\* the sites the parser reads in a Location text
SitesOf(loc_val) == Filled(SplitSites(NormLocation(loc_val), 1))

LocationInit ==
    /\ pc = "location"
    /\ arg \in LocationTexts
    /\ ret = <<>>
    /\ CompareIdle
    /\ MasterIdle
    /\ SegIdle
    /\ BuildIdle

\* build_record: city, region, country = _city_state_country_from_location
LocationParse ==
    /\ pc = "location"
    /\ ret' = <<_city_state_country_from_location(arg)>>
    /\ pc' = "bucket"
    /\ UNCHANGED <<arg, compareVars, masterVars, segVars, buildVars>>

\* to_master_row: bucket = region_bucket(city, region, country)
LocationBucket ==
    /\ pc = "bucket"
    /\ ret' = <<ret[1], region_bucket(ret[1][1], ret[1][2], ret[1][3])>>
    /\ pc' = "located"
    /\ UNCHANGED <<arg, compareVars, masterVars, segVars, buildVars>>

SpecLocation == LocationInit /\ [][LocationParse \/ LocationBucket]_vars

(***************************************************************************)
(* process_pdf of remove_bottom_watermark.py.  arg holds the call: whether *)
(* the two paths resolve to the same file, what the input file holds, what *)
(* the destination holds before the call, and the options.  ret holds the  *)
(* files as the call goes on, the attempt counter of the replace loop and  *)
(* the exception the call ended with.  What the file system and PyMuPDF    *)
(* answer (a save that fails half way, an output that does not open again, *)
(* a destination in use, a temporary file that cannot be removed) is       *)
(* chosen freely.                                                          *)
(***************************************************************************)
\* 'for attempt in range(10)'
ReplaceAttempts == 10

\* what the input file holds: no file, no bytes, an HTML page, bytes without
\* the %PDF- header, a header with a body PyMuPDF cannot open, a PDF
InputFiles == {"absent", "empty", "html", "noheader", "unreadable", "source"}

\* what the destination holds before the call
DestFiles == {"absent", "old"}

\* the greatest common divisor of two naturals, b > 0 or a > 0
RECURSIVE Gcd(_, _)
Gcd(a, b) == IF b = 0 THEN a ELSE Gcd(b, a % b)

\* the fraction num/den in lowest terms, den > 0
Fraction(num, den) == <<num \div Gcd(num, den), den \div Gcd(num, den)>>

\* (px / dpi) * 72.0 as an exact fraction <<numerator, denominator>>, for
\* px >= 0 and dpi > 0
px_to_points(px, dpi) == Fraction(px * 72, dpi)

\* 'strip_pt = px_to_points(strip, dpi) if units == "pixels" else strip'
StripPoints(a) == IF a.units = "pixels" THEN px_to_points(a.strip, a.dpi) ELSE Fraction(a.strip, 1)

\* the destination before the call: the input itself when the two paths are
\* the same
DestBefore(a) == IF a.same THEN a.in_file ELSE a.out_file

\* the files of the three paths
Files(in, out, tmp) == [in_path |-> in, out_path |-> out, tmp_out |-> tmp]

\* the call goes on at the next step
PdfGoes(next, files) ==
    /\ pc' = next
    /\ ret' = [ret EXCEPT !.files = files]

\* the call raises
PdfRaises(error, files) ==
    /\ pc' = "pdf_raised"
    /\ ret' = [ret EXCEPT !.files = files, !.error = error]

PdfInit ==
    /\ pc = "process_pdf"
    /\ arg \in [same : BOOLEAN, in_file : InputFiles, out_file : DestFiles,
                strip : {0, 1, 100}, units : {"pixels", "points"}, dpi : {0, 72, 96},
                mode : {"crop", "redact"}]
    /\ ret = [files |-> Files(arg.in_file, DestBefore(arg), "absent"), attempt |-> 0,
              last_err |-> "None", error |-> "None"]
    /\ CompareIdle
    /\ MasterIdle
    /\ SegIdle
    /\ BuildIdle

\* 'if in_path == out_path' and _preflight_pdf
PdfPreflight ==
    /\ pc = "process_pdf"
    /\ IF arg.same THEN PdfRaises("ValueError", ret.files)
       ELSE IF arg.in_file = "absent" THEN PdfRaises("FileNotFoundError", ret.files)
       ELSE IF arg.in_file \in {"empty", "html", "noheader"} THEN PdfRaises("ValueError", ret.files)
       ELSE PdfGoes("units", ret.files)
    /\ UNCHANGED <<arg, compareVars, masterVars, segVars, buildVars>>

\* the strip in points, the temporary path and the opening of the input
PdfOpen ==
    /\ pc = "units"
    /\ IF arg.units = "pixels" /\ arg.dpi = 0 THEN PdfRaises("ZeroDivisionError", ret.files)
       ELSE IF StripPoints(arg)[1] <= 0
       THEN PdfRaises("ValueError", ret.files)
       ELSE IF arg.in_file = "unreadable" THEN PdfRaises("FileDataError", ret.files)
       ELSE PdfGoes("save", ret.files)
    /\ UNCHANGED <<arg, compareVars, masterVars, segVars, buildVars>>

\* the pages are cropped or redacted and the document is saved to the
\* temporary path: the save writes the whole file, or a file that does not
\* open again, or raises with nothing or a part of the file written
PdfSave ==
    /\ pc = "save"
    /\ \/ PdfGoes("validate", [ret.files EXCEPT !.tmp_out = IF arg.mode = "crop" THEN "cropped" ELSE "redacted"])
       \/ PdfGoes("validate", [ret.files EXCEPT !.tmp_out = "damaged"])
       \/ \E written \in {"absent", "damaged"} :
              PdfRaises("RuntimeError", [ret.files EXCEPT !.tmp_out = written])
    /\ UNCHANGED <<arg, compareVars, masterVars, segVars, buildVars>>

\* 'test = fitz.open(tmp_out); _ = len(test)'
PdfValidate ==
    /\ pc = "validate"
    /\ IF ret.files.tmp_out = "damaged" THEN PdfRaises("FileDataError", ret.files)
       ELSE PdfGoes("replace", ret.files)
    /\ UNCHANGED <<arg, compareVars, masterVars, segVars, buildVars>>

\* one turn of the replace loop: os.replace moves the temporary file over
\* the destination, or raises and the loop sleeps and goes on
PdfReplace ==
    /\ pc = "replace"
    /\ ret.attempt < ReplaceAttempts
    /\ \/ /\ pc' = "pdf_done"
          /\ ret' = [ret EXCEPT !.files = Files(ret.files.in_path, ret.files.tmp_out, "absent"),
                                !.last_err = "None"]
       \/ \E e \in {"PermissionError", "OSError"} :
              /\ pc' = "replace"
              /\ ret' = [ret EXCEPT !.attempt = ret.attempt + 1, !.last_err = e]
    /\ UNCHANGED <<arg, compareVars, masterVars, segVars, buildVars>>

\* 'if last_err' after the last turn: the temporary file is removed, a
\* failure to remove it is swallowed, and PermissionError is raised
PdfGiveUp ==
    /\ pc = "replace"
    /\ ret.attempt = ReplaceAttempts
    /\ \E left \in {"absent", ret.files.tmp_out} :
           PdfRaises("PermissionError", [ret.files EXCEPT !.tmp_out = left])
    /\ UNCHANGED <<arg, compareVars, masterVars, segVars, buildVars>>

SpecPdf ==
    PdfInit /\ [][PdfPreflight \/ PdfOpen \/ PdfSave \/ PdfValidate \/ PdfReplace \/ PdfGiveUp]_vars

(***************************************************************************)
(* Properties of the run-to-run compare.                                   *)
(***************************************************************************)
\* the step is one pass of the first loop of compare_cmd
IsNewRowStep == pc = "compare" /\ n_idx <= Len(new_rows) /\ n_idx' = n_idx + 1

\* the step is one pass of the second loop of compare_cmd
IsOldRowStep == pc = "compare" /\ n_idx > Len(new_rows) /\ o_idx' = o_idx + 1

\* the rows the step appends to out_rows
Added == SubSeq(out_rows', Len(out_rows) + 1, Len(out_rows'))

\* the best match of the new row the step is about
StepBest == BestMatch(old_rows, matched, new_rows[n_idx])

Above90(sc)  == sc[1] > 90 * sc[2]
InBand(sc)   == sc[1] >= 50 * sc[2] /\ sc[1] <= 90 * sc[2]
Below50(sc)  == sc[1] < 50 * sc[2]

IsFieldNote(note)  == DOMAIN note = {"fmt", "diffs"}
IsRenameNote(note) == DOMAIN note = {"fmt", "old_name", "new_name"}

\* C1: a new row whose best score s against the unmatched old rows is above
\* 90 is a confident match (its old row is taken and the step emits nothing
\* or one Updated row listing fields); 50 <= s <= 90, s = 90 and s = 50
\* included, emits exactly one Updated row whose note names the old and the
\* new title; s < 50 emits exactly one New row.
C1_Thresholds ==
    [][IsNewRowStep =>
        LET best == StepBest
            n_row == new_rows[n_idx]
        IN  /\ Above90(best.score) =>
                /\ matched'[best.idx]
                /\ Len(Added) <= 1
                /\ \A k \in DOMAIN Added :
                      Added[k].Category = "Updated" /\ IsFieldNote(Added[k].Notes)
            /\ InBand(best.score) =>
                /\ Len(Added) = 1
                /\ Added[1].Category = "Updated"
                /\ IsRenameNote(Added[1].Notes)
                /\ Added[1].Notes.old_name = old_rows[best.idx]["Production Name"]
                /\ Added[1].Notes.new_name = n_row["Production Name"]
                /\ Added[1].row = fill_na(n_row)
            /\ Below50(best.score) =>
                /\ Len(Added) = 1
                /\ Added[1].Category = "New"
                /\ Added[1].row = fill_na(n_row)
      ]_vars

\* a rename row was emitted for a pair of titles that scores exactly 90
C1_Witness ==
    /\ pc = "done"
    /\ \E k \in DOMAIN out_csv :
          /\ IsRenameNote(out_csv[k].Notes)
          /\ out_csv[k].Notes.old_name = t_Starfall1
          /\ out_csv[k].Notes.new_name = t_Starfall2
          /\ TitleScore(new_rows[1], old_rows[1]) = <<1800, 20>>

\* the old rows of positions 1..upto whose flag is not set, as Removed rows
RECURSIVE RemovedOf(_, _, _)
RemovedOf(olds, flags, upto) ==
    IF upto = 0 THEN <<>>
    ELSE RemovedOf(olds, flags, upto - 1) \o
         (IF flags[upto] THEN <<>> ELSE <<fill_na(olds[upto])>>)

IsRemoved(r) == r.Category = "Removed"

RowOf(outs) == [k \in DOMAIN outs |-> outs[k].row]

\* C2: an old row is taken exactly by a new row whose best score is at least
\* 50 and stays taken; when compare_cmd is done, the Removed rows are the old
\* rows no new row took, one row each and in file order, and no Removed row is
\* emitted before every new row is processed.
C2_Removed ==
    [][/\ IsNewRowStep =>
            LET best == StepBest
                took == ~Below50(best.score)
            IN  /\ took => matched'[best.idx]
                /\ \A i \in DOMAIN matched :
                      matched'[i] = (matched[i] \/ (took /\ i = best.idx))
                /\ SelectSeq(Added, IsRemoved) = <<>>
       /\ IsOldRowStep => matched' = matched
       /\ pc' = "done" =>
            RowOf(SelectSeq(out_csv', IsRemoved)) = RemovedOf(old_rows', matched', Len(old_rows'))
      ]_vars

\* a run is done in which one old row was taken and another was Removed
C2_Witness ==
    /\ pc = "done"
    /\ Len(old_rows) = 2
    /\ matched[1] /\ ~matched[2]
    /\ Len(SelectSeq(out_csv, IsRemoved)) = 1

\* the program's placeholders for "no value"
IsPlaceholder(v) == _norm_text(v) \in NA_TOKENS

\* equal up to case and whitespace, or both placeholders
SameValue(a, b) == (IsPlaceholder(a) /\ IsPlaceholder(b)) \/ _norm_text(a) = _norm_text(b)

FieldDiffers(o_row, n_row, f) == ~SameValue(o_row[f], n_row[f])

\* C3: on a confident match (score > 90) nothing is emitted when the twelve
\* compared fields are all equivalent; otherwise exactly one Updated row is
\* emitted and its note lists exactly the compared fields that differ.
C3_ConfidentDiff ==
    [][(IsNewRowStep /\ Above90(StepBest.score)) =>
        LET o_row == old_rows[StepBest.idx]
            n_row == new_rows[n_idx]
            Diff(f) == FieldDiffers(o_row, n_row, f)
            differing == SelectSeq(CompareFields, Diff)
        IN  IF differing = <<>>
            THEN Added = <<>>
            ELSE /\ Len(Added) = 1
                 /\ Added[1].Category = "Updated"
                 /\ IsFieldNote(Added[1].Notes)
                 /\ Added[1].Notes.diffs = differing
                 /\ Added[1].row = fill_na(n_row)
      ]_vars

\* a confident match whose rows differ in two fields gave one Updated row
\* that lists the two, and one whose fields are "N/A" against "" gave none
C3_Witness ==
    /\ pc = "done"
    /\ Len(old_rows) = 1 /\ Len(new_rows) = 1
    /\ matched[1]
    /\ Above90(TitleScore(new_rows[1], old_rows[1]))
    /\ Len(out_csv) = 1
    /\ IsFieldNote(out_csv[1].Notes)
    /\ out_csv[1].Notes.diffs = <<"City", "Type">>

\* the end-to-end scenario: old run [Alpha, Beta], new run [Alpha, Beta v2, Gamma]
C4_Scenario ==
    /\ old_rows = <<BaseRow(t_Alpha), BaseRow(t_Beta)>>
    /\ new_rows = <<BaseRow(t_Alpha), BaseRow(t_BetaV2), BaseRow(t_Gamma)>>

\* C4 as stated: Beta and Beta v2 score 70 and the output is an Updated row
\* with a rename note for Beta v2, then a New row for Gamma, and nothing else.
C4_AsStated ==
    (pc = "done" /\ C4_Scenario) =>
        /\ ScoreEq(TitleScore(BaseRow(t_BetaV2), BaseRow(t_Beta)), Pct(70))
        /\ Len(out_csv) = 2
        /\ out_csv[1].Category = "Updated"
        /\ IsRenameNote(out_csv[1].Notes)
        /\ out_csv[1].row = BaseRow(t_BetaV2)
        /\ out_csv[2].Category = "New"
        /\ out_csv[2].row = BaseRow(t_Gamma)

\* C4 (amended): in the scenario Beta and Beta v2 score 100 (the tokens of one
\* title are a subset of the other's) and Gamma scores below 50 against both
\* old titles; the output is exactly one Updated row for Beta v2 whose note
\* lists the changed field Production Name, then one New row for Gamma; there
\* is no row for Alpha and no Removed row.
C4_EndToEnd ==
    (pc = "done" /\ C4_Scenario) =>
        /\ ScoreEq(TitleScore(BaseRow(t_BetaV2), BaseRow(t_Beta)), Pct(100))
        /\ Below50(TitleScore(BaseRow(t_Gamma), BaseRow(t_Alpha)))
        /\ Below50(TitleScore(BaseRow(t_Gamma), BaseRow(t_Beta)))
        /\ Len(out_csv) = 2
        /\ out_csv[1].Category = "Updated"
        /\ IsFieldNote(out_csv[1].Notes)
        /\ out_csv[1].Notes.diffs = <<"Production Name">>
        /\ out_csv[1].row = BaseRow(t_BetaV2)
        /\ out_csv[2].Category = "New"
        /\ out_csv[2].row = BaseRow(t_Gamma)

\* compare_cmd is done with the scenario
C4_Witness == pc = "done" /\ C4_Scenario /\ matched = <<TRUE, TRUE>> /\ Len(out_csv) = 2

\* C6: _changed_fields reports no difference for any of the twelve fields
\* when the old value is "N/A" and the new value is ""; a field it reports has
\* values that differ after trimming, whitespace-collapsing and lowercasing
\* and are not both placeholders.
C6_BlankEquivNA ==
    pc = "done" =>
    \A i \in DOMAIN old_rows, j \in DOMAIN new_rows :
        LET o_row == old_rows[i]
            n_row == new_rows[j]
            diffs == Range(_changed_fields(o_row, n_row))
        IN  \A f \in Range(CompareFields) :
              /\ (o_row[f] = s_NA /\ n_row[f] = <<>>) => f \notin diffs
              /\ f \in diffs =>
                    /\ _norm_text(o_row[f]) # _norm_text(n_row[f])
                    /\ ~(IsPlaceholder(o_row[f]) /\ IsPlaceholder(n_row[f]))

\* rows with "N/A" against "" in two fields were compared on a confident
\* match and gave no output row
C6_Witness ==
    /\ pc = "done"
    /\ Len(old_rows) = 1 /\ Len(new_rows) = 1
    /\ old_rows[1]["City"] = s_NA /\ new_rows[1]["City"] = <<>>
    /\ old_rows[1]["Type"] = s_NA /\ new_rows[1]["Type"] = <<>>
    /\ matched[1]
    /\ out_csv = <<>>

(***************************************************************************)
(* Properties of the master compare.                                       *)
(***************************************************************************)
\* master_compare_cmd has returned: from its only call, or from the call of
\* one region of the batch
MasterReturned == pc \in {"done", "master_returned"}

\* the keys master_compare_cmd compares: in the weekly map and in the master map
MatchedKeys == DOMAIN w_map \cap DOMAIN m_map

\* the fields _changed_vs_master reports for key k
MasterDiffs(k) == Range(_changed_vs_master(m_map[k], w_map[k]))

\* the rows of the VS_MASTER CSV written for key k
MasterOutFor(k) == {i \in DOMAIN out_master : _norm_key(out_master[i].ProductionName) = k}

\* C5: in master compare, for every field of the master comparison set, two
\* blank/N/A placeholder values (old "N/A" against new "", in either
\* direction) are reported as no difference for that field.
C5_MasterBlankEquivNA ==
    MasterReturned =>
    \A k \in MatchedKeys :
        \A f \in Range(_FIELDS_TO_COMPARE_AGAINST_MASTER) :
            (IsPlaceholder(Get(m_map[k], f)) /\ IsPlaceholder(Get(w_map[k], f)))
                => f \notin MasterDiffs(k)

\* the master Type "N/A" met the weekly Type "" and an Updated vs Master row
\* was written for the record
C5_Witness ==
    /\ pc = "done"
    /\ Len(master_rows) = 1 /\ Len(weekly_rows) = 1
    /\ Get(master_rows[1], "Type") = s_NA
    /\ Get(weekly_rows[1], "Type") = <<>>
    /\ Get(master_rows[1], "Shooting Dates") = Get(weekly_rows[1], "Shooting Dates")
    /\ MatchedKeys # {}
    /\ Len(out_master) = 1
    /\ out_master[1].Category = "Updated vs Master"

\* C7 as stated: for every compared field, a filled master value against a
\* blank/N/A weekly value is never flagged, and a blank/N/A master value
\* against a filled weekly value is flagged.
C7_AsStated ==
    MasterReturned =>
    \A k \in MatchedKeys :
        \A f \in Range(_FIELDS_TO_COMPARE_AGAINST_MASTER) :
            LET ov == Get(m_map[k], f)
                nv == Get(w_map[k], f)
            IN  /\ (~IsPlaceholder(ov) /\ IsPlaceholder(nv)) => f \notin MasterDiffs(k)
                /\ (IsPlaceholder(ov) /\ ~IsPlaceholder(nv)) => f \in MasterDiffs(k)

\* the fields whose own two values decide whether they are flagged
DirectFields == Range(_FIELDS_TO_COMPARE_AGAINST_MASTER) \ {"Production Name", "Start Month"}

\* C7: for every compared field, a filled master value against a blank/N/A
\* weekly value is never flagged.  A blank/N/A master value against a filled
\* weekly value is flagged for Shooting Dates, City, Province/State, Country,
\* Type, Director/Producer and Production Company; Start Month is then
\* flagged exactly when the start months derived from the two Shooting Dates
\* differ; Production Name is never flagged on records matched by key.
C7_Asymmetric ==
    MasterReturned =>
    \A k \in MatchedKeys :
        /\ \A f \in Range(_FIELDS_TO_COMPARE_AGAINST_MASTER) :
              (~IsPlaceholder(Get(m_map[k], f)) /\ IsPlaceholder(Get(w_map[k], f)))
                  => f \notin MasterDiffs(k)
        /\ \A f \in DirectFields :
              (IsPlaceholder(Get(m_map[k], f)) /\ ~IsPlaceholder(Get(w_map[k], f)))
                  => f \in MasterDiffs(k)
        /\ (IsPlaceholder(Get(m_map[k], "Start Month")) /\ ~IsPlaceholder(Get(w_map[k], "Start Month")))
              => ("Start Month" \in MasterDiffs(k)
                    <=> _start_month_from_span(Get(m_map[k], "Shooting Dates"))
                          # _start_month_from_span(Get(w_map[k], "Shooting Dates")))
        /\ "Production Name" \notin MasterDiffs(k)

\* a master City "Vancouver" met a blank weekly City and no row was written
C7_Witness ==
    /\ pc = "done"
    /\ Len(master_rows) = 1 /\ Len(weekly_rows) = 1
    /\ Get(master_rows[1], "City") = s_Vancouver
    /\ Get(weekly_rows[1], "City") = <<>>
    /\ MatchedKeys # {}
    /\ out_master = <<>>

\* the start date of a record: from its Shooting Dates span, else the first
\* of the month of its Start Month
StartOf(row) ==
    LET sd == _start_date_from_shooting_dates(Get(row, "Shooting Dates"))
    IN  IF sd # None THEN sd ELSE _approx_start_date_from_start_month(Get(row, "Start Month"))

StartsLater(master_record, weekly_record) ==
    /\ StartOf(master_record) # None
    /\ StartOf(weekly_record) # None
    /\ DateLess(StartOf(master_record), StartOf(weekly_record))

\* C8: a weekly record whose key matches a master record is flagged "pushed
\* back" exactly when both start dates are known and the weekly start date
\* is strictly later than the master's.
C8_PushedBackIff ==
    MasterReturned =>
    \A k \in MatchedKeys :
        (\E i \in MasterOutFor(k) : out_master[i].DatePushedBack = s_Yes)
            <=> StartsLater(m_map[k], w_map[k])

\* the Start Month moved from March 2026 to April 2026 with no Shooting Dates
\* on either side, and no row was written
C8_Witness ==
    /\ pc = "done"
    /\ Len(master_rows) = 1 /\ Len(weekly_rows) = 1
    /\ Get(master_rows[1], "Start Month") = s_March2026
    /\ Get(weekly_rows[1], "Start Month") = s_April2026
    /\ Get(master_rows[1], "Shooting Dates") = s_NA
    /\ Get(weekly_rows[1], "Shooting Dates") = s_NA
    /\ MatchedKeys # {}
    /\ out_master = <<>>

\* C9 as stated: in master compare every master record with no counterpart
\* among the weekly records produces a Removed row.
C9_AsStated ==
    MasterReturned =>
    \A k \in DOMAIN m_map \ DOMAIN w_map :
        \E i \in MasterOutFor(k) : out_master[i].Category = "Removed"

\* C9: master compare writes rows for weekly records only: one New to Master
\* row for each weekly key the master lacks, one Updated vs Master row for
\* each matched key with a changed field, none for a matched key without.  It
\* writes no Removed row: a master record with no weekly counterpart
\* produces no row.
C9_MasterRows ==
    MasterReturned =>
    /\ \A i \in DOMAIN out_master :
          /\ out_master[i].Category \in {"New to Master", "Updated vs Master"}
          /\ _norm_key(out_master[i].ProductionName) \in DOMAIN w_map
    /\ \A k \in DOMAIN w_map :
          IF k \notin DOMAIN m_map
          THEN /\ Cardinality(MasterOutFor(k)) = 1
               /\ \A i \in MasterOutFor(k) : out_master[i].Category = "New to Master"
          ELSE IF MasterDiffs(k) # {}
          THEN /\ Cardinality(MasterOutFor(k)) = 1
               /\ \A i \in MasterOutFor(k) : out_master[i].Category = "Updated vs Master"
          ELSE MasterOutFor(k) = {}
    /\ \A k \in DOMAIN m_map \ DOMAIN w_map : MasterOutFor(k) = {}

\* the master has a record the weekly run lacks, the weekly run has a record
\* the master lacks, and the only row written is the New to Master row
C9_Witness ==
    /\ pc = "done"
    /\ DOMAIN m_map \ DOMAIN w_map # {}
    /\ DOMAIN w_map \ DOMAIN m_map # {}
    /\ Len(out_master) = 1
    /\ out_master[1].Category = "New to Master"

\* the weekly rows master_compare_cmd kept for its region
KeptRows == KeptWeekly(weekly_rows, region)

\* C10: when two records of one collection share a normalized key, the
\* record kept for the comparison is the one with the higher completeness
\* score, whatever the input order.
C10_BestDuplicateKept ==
    MasterReturned =>
    /\ \A i \in DOMAIN KeptRows :
          KeyOf(KeptRows[i]) # <<>> => score(w_map[KeyOf(KeptRows[i])]) >= score(KeptRows[i])
    /\ \A i \in DOMAIN master_rows :
          KeyOf(master_rows[i]) # <<>> => score(m_map[KeyOf(master_rows[i])]) >= score(master_rows[i])

\* two weekly records share a key, the sparse one first, and the sparse one
\* is the one in the weekly map
C10_Witness ==
    /\ pc = "done"
    /\ Len(KeptRows) = 2
    /\ KeyOf(KeptRows[1]) = KeyOf(KeptRows[2])
    /\ score(KeptRows[1]) < score(KeptRows[2])
    /\ w_map[KeyOf(KeptRows[1])] = KeptRows[1]

(***************************************************************************)
(* Properties of the notes                                                 *)
(***************************************************************************)
\* the run labels a note embeds
NoteLabels(note) ==
    {note[f] : f \in DOMAIN note \cap {"new_label", "old_label", "weekly_label"}}

\* C11: every row the run-to-run compare emits carries a Notes string that
\* embeds the run label and a position in the baseline list that is at
\* least 1
C11_NotesLabelAndPosition ==
    \A i \in DOMAIN out_rows :
        /\ NoteLabels(out_rows[i].Notes) # {}
        /\ "pos" \in DOMAIN out_rows[i].Notes
        /\ out_rows[i].Notes.pos >= 1

\* an Updated row of the run-to-run compare has been emitted, and its note
\* is "UPDATED (<fields>)" with neither label nor position
C11_Witness ==
    \E i \in DOMAIN out_rows :
        /\ out_rows[i].Category = "Updated"
        /\ out_rows[i].Notes.fmt = "UPDATED ({diffs})"
        /\ NoteLabels(out_rows[i].Notes) = {}
        /\ "pos" \notin DOMAIN out_rows[i].Notes

(***************************************************************************)
(* Properties of _norm_key                                                 *)
(***************************************************************************)
\* C12: key normalization is idempotent: the key of a key is that key
C12_NormKeyIdempotent ==
    (pc = "norm_key" /\ Len(ret) = 2) => ret[2] = ret[1]

\* a title with an alias clause, an accent or punctuation has been
\* normalized twice, and its key is not the title itself
C12_Witness ==
    /\ pc = "norm_key"
    /\ Len(ret) = 2
    /\ ret[1] # arg
    /\ ret[1] # <<>>
    /\ \E i \in DOMAIN arg : arg[i] = "("
    /\ \E i \in DOMAIN arg : arg[i] = ")"
    /\ Len(ret[1]) + 5 < Len(arg)

(***************************************************************************)
(* Properties of the span parsers                                          *)
(***************************************************************************)
\* the dates the parts of a span text name, read without the parsers
PartsYear(p) == ToInt(p[8])

PartsFirst(p) == <<MONTHS(p[1]), ToInt(p[2])>>

PartsLast(p) == <<MONTHS(p[5]), ToInt(p[6])>>

\* the span has no first year and its end month/day precedes its start
\* month/day, both being days of the calendar
PartsWrap(p) ==
    /\ p[3] = <<>>
    /\ ValidDate(PartsYear(p) - 1, PartsFirst(p)[1], PartsFirst(p)[2])
    /\ ValidDate(PartsYear(p), PartsLast(p)[1], PartsLast(p)[2])
    /\ \/ PartsLast(p)[1] < PartsFirst(p)[1]
       \/ PartsLast(p)[1] = PartsFirst(p)[1] /\ PartsLast(p)[2] < PartsFirst(p)[2]

\* "November 3 - March 15 2026"
s_NovMar2026 ==
    <<MonthNames[11], <<"3">>, <<>>, <<" ", "-", " ">>, MonthNames[3], <<"1", "5">>, <<" ">>,
      <<"2", "0", "2", "6">>>>

\* C13: a span whose end month/day precedes its start month/day parses, with
\* _parse_date_range and with _parse_span_flexible, to a start in the year
\* before the stated year and an end in the stated year; "November 3 -
\* March 15 2026" gives 2025-11-03 and 2026-03-15
C13_YearWrap ==
    (pc = "dates" /\ Len(ret) = 4 /\ PartsWrap(arg)) =>
        /\ ret[1][2] = <<PartsYear(arg) - 1, PartsFirst(arg)[1], PartsFirst(arg)[2]>>
        /\ ret[1][3] = <<PartsYear(arg), PartsLast(arg)[1], PartsLast(arg)[2]>>
        /\ ret[4] = <<ret[1][2], ret[1][3]>>

\* both parsers have read "November 3 - March 15 2026": _parse_date_range
\* found no span and _parse_span_flexible returned None
C13_Witness ==
    /\ pc = "dates"
    /\ Len(ret) = 4
    /\ arg = s_NovMar2026
    /\ ret[1] = <<<<>>, None, None>>
    /\ ret[4] = None

\* the start the text names before any reinterpretation: the first year when
\* it is written, else the last year
PartsStartYear(p) == IF p[3] = <<>> THEN PartsYear(p) ELSE ToInt(SubSeq(p[3], 3, 6))

PartsStart(p) == <<PartsStartYear(p), PartsFirst(p)[1], PartsFirst(p)[2]>>

PartsEnd(p) == <<PartsYear(p), PartsLast(p)[1], PartsLast(p)[2]>>

\* _parse_date_range returned both dates
BothKnown(r) == r[2] # None /\ r[3] # None

\* C14: a span returned by _parse_date_range with both dates known has
\* end >= start, also when the first year is written and is later than the
\* last year; when the end as written is earlier than the start as written,
\* the start is moved to the year before the end's and the end is kept
C14_EndNotBeforeStart ==
    (pc = "dates" /\ Len(ret) >= 1 /\ BothKnown(ret[1])) =>
        /\ ~DateLess(ret[1][3], ret[1][2])
        /\ ret[1][3] = PartsEnd(arg)
        /\ IF DateLess(PartsEnd(arg), PartsStart(arg))
           THEN ret[1][2] = <<PartsYear(arg) - 1, PartsFirst(arg)[1], PartsFirst(arg)[2]>>
           ELSE ret[1][2] = PartsStart(arg)

\* a span whose first year, 2029, is later than its last year, 2026, has
\* been parsed, and its start was moved to 2025
C14_Witness ==
    /\ pc = "dates"
    /\ Len(ret) >= 1
    /\ BothKnown(ret[1])
    /\ PartsStartYear(arg) = 2029
    /\ PartsYear(arg) = 2026
    /\ ret[1][2][1] = 2025
    /\ ret[1][3][1] = 2026

\* C15: for a well-formed "Month D - Month D, YYYY" text, year-wrapped or
\* not, parsing the display text that _parse_date_range returns gives the
\* same start date and the same end date
C15_RoundTrip ==
    (pc = "dates" /\ Len(ret) >= 3 /\ arg[3] = <<>>) =>
        /\ ret[3][2] = ret[1][2]
        /\ ret[3][3] = ret[1][3]

\* the display text of a year-wrapped span written with a hyphen has been
\* parsed again: it differs from the input text and gives two known dates
C15_Witness ==
    /\ pc = "dates"
    /\ Len(ret) >= 3
    /\ arg[3] = <<>>
    /\ PartsWrap(arg)
    /\ BothKnown(ret[1])
    /\ BothKnown(ret[3])
    /\ ret[1][1] # SpanInput(arg)
    /\ ret[1][2][1] = ret[1][3][1] - 1

\* C16: the production length is end - start + 1 days when both dates are
\* known, so at least 1, and 3 for March 1 to March 3; it is empty when a
\* date is unknown
C16_InclusiveLength ==
    (pc = "dates" /\ Len(ret) >= 2) =>
        IF BothKnown(ret[1])
        THEN /\ ret[2] # <<>>
             /\ ToInt(ret[2]) = Ordinal(ret[1][3]) - Ordinal(ret[1][2]) + 1
             /\ ToInt(ret[2]) >= 1
             /\ (ret[1][2][2] = 3 /\ ret[1][2][3] = 1 /\ ret[1][3] = <<ret[1][2][1], 3, 3>>)
                    => ret[2] = <<"3">>
        ELSE ret[2] = <<>>

\* the length of a span from March 1 to March 3 of one year has been
\* computed
C16_Witness ==
    /\ pc = "dates"
    /\ Len(ret) >= 2
    /\ BothKnown(ret[1])
    /\ ret[1][2][2] = 3 /\ ret[1][2][3] = 1
    /\ ret[1][3] = <<ret[1][2][1], 3, 3>>
    /\ ret[2] = <<"3">>

(***************************************************************************)
(* Properties of region_bucket                                             *)
(***************************************************************************)
\* the code of the first region of the column
RegionCode(rg) == Upper(Strip(FirstOfPlus(rg)))

\* the first region is a state, province or territory of one of the tables
Recognised(rg) ==
    \/ RegionCode(rg) \in US_STATES \cup CA_PROV \cup AU_STATES
    \/ Lower(RegionCode(rg)) \in FULL_STATE \cup FULL_PROV \cup FULL_AU_STATE

\* C17: region_bucket gives "West Coast Canada" for Canada with region BC,
\* "Quebec" for Canada with region QC, "East Coast Canada" for Canada with
\* any other region or none, "United States" for USA, and "Other" for a
\* blank country with no recognisable region
C17_RegionBuckets ==
    (pc = "region" /\ Len(ret) = 1) =>
        /\ (arg[3] = s_Canada /\ arg[2] = s_BC) => ret[1] = b_WestCoastCanada
        /\ (arg[3] = s_Canada /\ arg[2] = s_QC) => ret[1] = b_Quebec
        /\ (arg[3] = s_Canada /\ RegionCode(arg[2]) \notin {s_BC, s_QC})
               => ret[1] = b_EastCoastCanada
        /\ arg[3] = s_USA => ret[1] = b_UnitedStates
        /\ (Strip(arg[3]) = <<>> /\ ~Recognised(arg[2])) => ret[1] = b_Other

\* region_bucket has returned "Quebec" for Canada with region QC
C17_Witness ==
    /\ pc = "region"
    /\ Len(ret) = 1
    /\ arg[3] = s_Canada
    /\ arg[2] = s_QC
    /\ ret[1] = b_Quebec

\* a block that opens with the title marker
Titled(block) == StartsWith(block, TITLE_PREFIX)

\* C19: every production the segmenter emits, and so every block that the
\* record builder loads from the per-production files, starts with a title
\* line that carries the title marker; none begins with a body line
C19_BlocksStartWithTitle ==
    /\ \A k \in DOMAIN all_prods : Titled(all_prods[k])
    /\ seg_out # <<>> =>
          \A k \in DOMAIN _load_from_productions_folder(seg_out.prod_files) :
              Titled(_load_from_productions_folder(seg_out.prod_files)[k])

\* the per-production files are written and the folder loader returns a
\* block that begins with a body line
C19_Witness ==
    /\ pc = "done"
    /\ seg_out # <<>>
    /\ \E k \in DOMAIN _load_from_productions_folder(seg_out.prod_files) :
          ~Titled(_load_from_productions_folder(seg_out.prod_files)[k])

\* the pages whose lines occur in the production
PagesOf(prod) == {p \in 1..MaxPages : Contains(prod, IntStr(p))}

\* C20: a page boundary closes the production being collected even when no
\* new title has appeared: the accumulator is empty at the start of every
\* page, and no emitted production holds lines of two different pages
C20_PageBoundaryCloses ==
    /\ pc = "extract" => cur_prod_lines = <<>>
    /\ \A k \in DOMAIN all_prods : Cardinality(PagesOf(all_prods[k])) <= 1

\* two pages are done: the production that the title of page 1 opened was
\* closed at the page boundary, and page 2, which has no title, gave a
\* production of its own
C20_Witness ==
    /\ pc = "extract"
    /\ page_no = 3
    /\ Len(all_prods) = 2
    /\ Titled(all_prods[1])
    /\ PagesOf(all_prods[1]) = {1}
    /\ ~Titled(all_prods[2])
    /\ PagesOf(all_prods[2]) = {2}
    /\ cur_prod_lines = <<>>

\* the lowercased text of the block contains a keyword of the denylist
Denied(block) ==
    \E k \in DOMAIN EXCLUDE_KEYWORDS : Contains(Lower(block), EXCLUDE_KEYWORDS[k])

\* the positions, among the first n blocks, of the blocks with and without
\* a denylist keyword
DeniedAmong(n) ==
    LET Hit(i) == Denied(blocks[i])
    IN  SelectSeq([i \in 1..n |-> i], Hit)

KeptAmong(n) ==
    LET Free(i) == ~Denied(blocks[i])
    IN  SelectSeq([i \in 1..n |-> i], Free)

\* the records are those of the blocks at the positions kept, the filtered
\* titles those of the blocks at the positions dropped, each in the order of
\* the blocks: each carries the baseline title of its block, followed by the
\* aliases of the block when it has any
Accounted(kept, dropped) ==
    /\ Len(kept_rows) = Len(kept)
    /\ \A k \in DOMAIN kept : StartsWith(kept_rows[k]["Production Name"], titles[kept[k]])
    /\ Len(filtered_titles) = Len(dropped)
    /\ \A k \in DOMAIN dropped : StartsWith(filtered_titles[k], titles[dropped[k]])

\* C18: in build_cmd a block is excluded exactly when its lowercased text
\* contains a denylist keyword; an excluded block gives no record and one
\* filtered title, a kept block gives one record, and the baseline holds one
\* title per block in the order of the blocks, the excluded ones included:
\* records + filtered titles = baseline titles = blocks
C18_ExclusionAccounting ==
    pc \in {"build_loop", "done"} /\ build_in # <<>> =>
        /\ Len(titles) = Len(blocks)
        /\ Accounted(KeptAmong(b_pos - 1), DeniedAmong(b_pos - 1))
        /\ build_out # <<>> =>
              /\ b_pos - 1 = Len(blocks)
              /\ Len(build_out.csv) + Len(filtered_titles) = Len(blocks)
              /\ build_out.csv = kept_rows
              /\ titles # <<>> => SplitLines(build_out.baseline) = titles
              /\ filtered_titles # <<>> => SplitLines(build_out.filtered) = filtered_titles

\* three blocks were built, the second of them names Hallmark: two records,
\* one filtered title, and Holly in the second line of the baseline
C18_Witness ==
    /\ pc = "done"
    /\ build_out # <<>>
    /\ Len(blocks) = 3
    /\ Denied(blocks[2])
    /\ Len(build_out.csv) = 2
    /\ filtered_titles = << <<"H","o","l","l","y">> >>
    /\ SplitLines(build_out.baseline)[2] = <<"H","o","l","l","y">>
    /\ build_out.csv[1]["Production Name"] = <<"A","l","p","h","a">>

\* a line that one of the HEADER_KILL patterns matches
NoiseLine(line) == HEADER_KILL(Strip(line))

\* the lines of a production, the title marker taken off
LinesOfProd(prod) ==
    [k \in DOMAIN SplitLines(prod) |->
        IF Titled(SplitLines(prod)[k]) THEN SubSeq(SplitLines(prod)[k], 5, Len(SplitLines(prod)[k]))
        ELSE SplitLines(prod)[k]]

\* the lines of the productions, in the order of the productions
RECURSIVE EmittedLines(_)
EmittedLines(prods) ==
    IF prods = <<>> THEN <<>> ELSE LinesOfProd(Head(prods)) \o EmittedLines(Tail(prods))

\* the lines of a visual block: the lines of its text that are not blank
TextLines(b) ==
    LET NonBlank(l) == Strip(l) # <<>>
        kept == SelectSeq(SplitLines(BlockText(b)), NonBlank)
    IN  [k \in DOMAIN kept |-> Strip(kept[k])]

\* the lines of the visual blocks of the pages done so far
LinesRead ==
    UNION {Range(TextLines(doc[p][b])) : <<p, b>> \in {<<p, b>> \in (1..(page_no - 1)) \X (1..MaxDocBlocks) :
                                                      b \in DOMAIN doc[p]}}

\* C21: a header or footer noise line never appears in an emitted production,
\* wherever it sits in its visual block, and no other line is dropped because
\* of a noise line
C21_NoiseDropped ==
    pc \in {"extract", "done"} /\ doc # <<>> =>
        /\ \A l \in Range(EmittedLines(all_prods)) : ~NoiseLine(l)
        /\ \A l \in LinesRead : ~NoiseLine(l) => l \in Range(EmittedLines(all_prods))

\* the files are written: a "LAST UPDATED:" line that was the second line of
\* its block is in a production, and a line that followed an issue line in
\* its block is in none
C21_Witness ==
    /\ pc = "done"
    /\ seg_out # <<>>
    /\ \E l \in Range(EmittedLines(seg_out.prod_files)) : NoiseLine(l)
    /\ \E l \in LinesRead : ~NoiseLine(l) /\ l \notin Range(EmittedLines(seg_out.prod_files))

\* the column of a block in automatic mode, in the words of the reading
\* order: wholly left of midline - margin is column 0, wholly right of
\* midline + margin is column 1, across the midline is column 0
ColumnOf(b) ==
    IF 2 * b.x1 < PageWidth - 2 * col_margin THEN 0
    ELSE IF 2 * b.x0 > PageWidth + 2 * col_margin THEN 1
    ELSE 0

\* block i of the page is read before block j: by column, then top edge,
\* then left edge, then place in the input
ReadBefore(bs, i, j) ==
    \/ ColumnOf(bs[i]) < ColumnOf(bs[j])
    \/ /\ ColumnOf(bs[i]) = ColumnOf(bs[j])
       /\ \/ bs[i].y0 < bs[j].y0
          \/ bs[i].y0 = bs[j].y0 /\ bs[i].x0 < bs[j].x0
          \/ bs[i].y0 = bs[j].y0 /\ bs[i].x0 = bs[j].x0 /\ i < j

\* the k-th block of the page in reading order
ReadAt(bs, k) ==
    bs[CHOOSE i \in DOMAIN bs : Cardinality({j \in DOMAIN bs : ReadBefore(bs, j, i)}) = k - 1]

\* the lines of the blocks that are not skipped, block after block
RECURSIVE KeptLines(_)
KeptLines(bs) ==
    IF bs = <<>> THEN <<>>
    ELSE (IF HEADER_KILL(BlockText(Head(bs))) THEN <<>> ELSE TextLines(Head(bs))) \o KeptLines(Tail(bs))

\* the lines of the first n pages in reading order
RECURSIVE ReadingOrder(_)
ReadingOrder(n) ==
    IF n = 0 THEN <<>>
    ELSE ReadingOrder(n - 1) \o KeptLines([k \in DOMAIN doc[n] |-> ReadAt(doc[n], k)])

\* C25: the segmenter emits the lines in reading order: the pages in the
\* order of the document, the blocks of a page by (column, top edge, left
\* edge) with ties in input order, a block across the midline in column 0;
\* the productions follow the order of their title lines in that sequence,
\* a title line being the first line of its production
C25_ReadingOrder ==
    pc \in {"extract", "done"} /\ doc # <<>> =>
        /\ EmittedLines(all_prods) = ReadingOrder(page_no - 1)
        /\ \A k \in DOMAIN all_prods : \A n \in 2..Len(SplitLines(all_prods[k])) :
              ~Titled(SplitLines(all_prods[k])[n])

\* a page was read whose blocks came in the order right column, block across
\* the midline, body: the block across the midline is read first, the body
\* that starts at the same place second, the right column last
C25_Witness ==
    /\ pc = "extract"
    /\ page_no = 2
    /\ doc[1] = <<PageBlocks(1)[3], PageBlocks(1)[6], PageBlocks(1)[2]>>
    /\ EmittedLines(all_prods)
         = TextLines(PageBlocks(1)[6]) \o TextLines(PageBlocks(1)[2]) \o TextLines(PageBlocks(1)[3])

\* line i has the STATUS marker / the LOCATION marker
HasStatus(lines, i) == StartsWith(Strip(Upper(lines[i])), s_STATUS)

HasLocation(lines, i) ==
    \/ StartsWith(Strip(Upper(lines[i])), s_LOCATION)
    \/ HasStatus(lines, i) /\ Contains(Upper(lines[i]), s_LOCATION)

\* the values line i carries, read on its own
Carried(lines, i) == ScanLine(NothingFound, lines, i, Strip(Upper(lines[i])))

\* the value of the first line that has the marker and carries a value
FirstStatus(lines) ==
    LET hits == {i \in DOMAIN lines : HasStatus(lines, i) /\ Carried(lines, i).status_val # <<>>}
    IN  IF hits = {} THEN <<>> ELSE Carried(lines, MinOf(hits)).status_val

FirstLocation(lines) ==
    LET hits == {i \in DOMAIN lines : HasLocation(lines, i) /\ Carried(lines, i).location_val # <<>>}
    IN  IF hits = {} THEN <<>> ELSE Carried(lines, MinOf(hits)).location_val

\* C22: the scanner returns, for STATUS and for LOCATION(S) each on its own,
\* the value of the first line of the block that has the marker; a later
\* STATUS or LOCATION line never overrides a value found earlier, and the
\* scan stops as soon as both values are found
C22_FirstMatchWins ==
    pc \in {"scan", "scan_done"} =>
        /\ \A i \in DOMAIN ret : \A j \in DOMAIN ret :
              i < j => /\ ~BothFound(ret[i])
                       /\ ret[i].status_val # <<>> => ret[j].status_val = ret[i].status_val
                       /\ ret[i].location_val # <<>> => ret[j].location_val = ret[i].location_val
        /\ pc = "scan_done" =>
              /\ ScanValues.status_val = FirstStatus(arg)
              /\ ScanValues.location_val = FirstLocation(arg)

\* the block has "STATUS: March 2026", then "STATUS: April 2026", then a
\* LOCATION(S) line: the scanner has returned the status April 2026
C22_Witness ==
    /\ pc = "scan_done"
    /\ arg = <<l_StatusMarch, l_StatusApril, l_LocationVancouver>>
    /\ ScanValues.status_val = <<"A","p","r","i","l"," ","2","0","2","6">>
    /\ FirstStatus(arg) = <<"M","a","r","c","h"," ","2","0","2","6">>

\* C23: a missing input is fatal.  A run folder without its FullSchema CSV or
\* without its baseline list aborts the run, and so does a master directory
\* that holds no master table for the requested region: the run never goes
\* on with a substitute table
C23_InputNotFoundFatal ==
    pc \in {"resolve", "resolved", "aborted"} =>
        /\ (Len(ret) >= 1 /\ (f_WeeklyCsv \notin Range(arg.run) \/ f_WeeklyBaseline \notin Range(arg.run)))
              => ret[1].raised /\ pc = "aborted"
        /\ (Len(ret) = 2 /\ arg.region # <<>>
              /\ MatchingMasters(arg.master, FileKey(REGION_FILE_MAP(arg.region))) = <<>>)
              => ret[2].raised /\ pc = "aborted"

\* the master directory holds the West Coast table only and the region asked
\* for is Quebec: the run goes on with the West Coast table
C23_Witness ==
    /\ pc = "resolved"
    /\ Len(ret) = 2
    /\ arg.region = b_Quebec
    /\ arg.master = << <<"M","a","s","t","e","r","_","W","e","s","t"," ","C","o","a","s","t"," ","C","A">> >>
    /\ ~ret[2].raised
    /\ ret[2].value = arg.master[1]

\* the old rows that are not matched yet
Unmatched == {j \in DOMAIN old_rows : ~matched[j]}

\* the old rows that the pass for the new row n_idx marks as matched
NewlyMatched == {j \in DOMAIN old_rows : ~matched[j] /\ matched'[j]}

\* old row j is, among the old rows not matched yet, the one that scores
\* highest against the new row, the earliest one of them on equal scores,
\* and its score is at least 50
GreedyChoice(n_row, j) ==
    /\ j \in Unmatched
    /\ ScoreGeq(TitleScore(n_row, old_rows[j]), Pct(50))
    /\ \A k \in Unmatched : ScoreGeq(TitleScore(n_row, old_rows[j]), TitleScore(n_row, old_rows[k]))
    /\ \A k \in Unmatched : k < j => ScoreGt(TitleScore(n_row, old_rows[j]), TitleScore(n_row, old_rows[k]))

\* what a step of compare_cmd does to the matching
GreedyStep ==
    /\ n_idx' \in {n_idx, n_idx + 1}
    /\ \A j \in DOMAIN old_rows : matched[j] => matched'[j]
    /\ n_idx' = n_idx => NewlyMatched = {}
    /\ n_idx' = n_idx + 1 =>
          /\ Cardinality(NewlyMatched) <= 1
          /\ \A j \in NewlyMatched : GreedyChoice(new_rows[n_idx], j)
          /\ (\E j \in Unmatched : ScoreGeq(TitleScore(new_rows[n_idx], old_rows[j]), Pct(50)))
                => NewlyMatched # {}

\* C24: run-to-run matching is a greedy first-unmatched assignment: the new
\* records are visited in input order, each takes, among the old records not
\* matched yet, the one with the highest score (the earliest on equal
\* scores), an old record is matched to at most one new record, and a match
\* once taken is never undone or given to another record
C24_GreedyMatching == [][pc = "compare" => GreedyStep]_vars

\* the old run has Alpha twice and the first new record is Alpha: it has
\* taken the first of the two, the second is still free
C24_Witness ==
    /\ pc = "compare"
    /\ Len(old_rows) = 2
    /\ Len(new_rows) >= 1
    /\ Get(old_rows[1], "Production Name") = t_Alpha
    /\ Get(old_rows[2], "Production Name") = t_Alpha
    /\ Get(new_rows[1], "Production Name") = t_Alpha
    /\ n_idx = 2
    /\ matched = <<TRUE, FALSE>>

\* new row i has a confident match among the old rows
HasConfident(i) == \E j \in DOMAIN old_rows : Confident(TitleScore(new_rows[i], old_rows[j]))

\* the output has a row of the category for the record
Reported(category, row) ==
    \E k \in DOMAIN out_rows : out_rows[k].Category = category /\ out_rows[k].row = fill_na(row)

\* C28: a new record with a confident match (score > 90) among the old
\* records is never reported as New, and the old record it matches is never
\* reported as Removed, whatever the order of the new records and whatever
\* other new records score 50 to 90 against the same old record
C28_ConfidentNeverNew ==
    pc \in {"compare", "done"} /\ old_rows # <<>> =>
        \A i \in DOMAIN new_rows : HasConfident(i) =>
            /\ ~Reported("New", new_rows[i])
            /\ \A j \in DOMAIN old_rows :
                  Confident(TitleScore(new_rows[i], old_rows[j])) => ~Reported("Removed", old_rows[j])

\* the old run is Alpha, the new run is Tal, Alpha: Tal, which scores 50
\* against Alpha, has taken it, and Alpha is written as New
C28_Witness ==
    /\ pc = "done"
    /\ Len(old_rows) = 1
    /\ Get(old_rows[1], "Production Name") = t_Alpha
    /\ Len(new_rows) = 2
    /\ Get(new_rows[1], "Production Name") = t_Tal
    /\ Get(new_rows[2], "Production Name") = t_Alpha
    /\ \E k \in DOMAIN out_csv : out_csv[k].Category = "New" /\ out_csv[k].row = fill_na(new_rows[2])

(***************************************************************************)
(* C26.  For a single location text "City, Tail" whose Tail is a           *)
(* recognised state or province, abbreviation or full name, the parser     *)
(* returns that City, the abbreviation of the Tail and the country the     *)
(* table gives to that region; the region of a hub city never replaces the *)
(* stated one.                                                             *)
(***************************************************************************)
CommaTokens(loc_val) == Filled(SplitBy(SitesOf(loc_val)[1], <<",">>))

\* one site of two comma tokens, the second a state or province
CityTail(loc_val) ==
    /\ Len(SitesOf(loc_val)) = 1
    /\ Len(CommaTokens(loc_val)) = 2
    /\ _looks_like_region_token(CommaTokens(loc_val)[2])[1] # <<>>

StatedPlace(toks) ==
    <<_normalize_spaces(toks[1]), _looks_like_region_token(toks[2])[1],
      _looks_like_region_token(toks[2])[2]>>

C26_StatedRegionKept ==
    (pc \in {"bucket", "located"} /\ CityTail(arg)) => ret[1] = StatedPlace(CommaTokens(arg))

\* "Vancouver, WA" was parsed
C26_Witness ==
    /\ pc = "bucket"
    /\ arg = l_VancouverWA
    /\ CityTail(arg)
    /\ ret[1] = <<s_Vancouver, <<"B", "C">>, s_Canada>>

(***************************************************************************)
(* C27.  For a location text of several sites the bucket of the joined     *)
(* City, Province/State and Country equals the bucket of the first site    *)
(* parsed on its own.                                                      *)
(***************************************************************************)
FirstSiteBucket(site) == region_bucket(site[1], site[2], site[3])

C27_BucketOfFirstSite ==
    (pc = "located" /\ Len(SitesOf(arg)) >= 2)
        => ret[2] = FirstSiteBucket(_city_state_country_from_location(SitesOf(arg)[1]))

\* an unknown place and then Toronto: the joined region list starts with the
\* region of the second site
C27_Witness ==
    /\ pc = "located"
    /\ arg = Join(<<l_SmallvilleNowhere, l_Toronto>>, <<" ", "/", " ">>)
    /\ ret[1][2] = <<"O", "N">>
    /\ _city_state_country_from_location(SitesOf(arg)[1])[2] = <<>>

(***************************************************************************)
(* C29.  The start date master compare derives from a Shooting Dates text  *)
(* equals the start date _parse_date_range computes for the same text,     *)
(* year-wrapped spans included.                                            *)
(***************************************************************************)
C29_SameStartDate ==
    (pc = "dates" /\ Len(ret) = 5) => ret[5] = ret[3][2]

\* a span that wraps the year: the parser starts it the year before the
\* stated one, master compare in the stated year
C29_Witness ==
    /\ pc = "dates"
    /\ Len(ret) = 5
    /\ PartsWrap(arg)
    /\ ret[3][2] # None
    /\ ret[5] = <<ret[3][2][1] + 1, ret[3][2][2], ret[3][2][3]>>

(***************************************************************************)
(* C30.  process_pdf is failure-atomic: the input file is never written;   *)
(* whenever the call raises, the destination holds what it held before the *)
(* call and no temporary output file is left; and the destination is       *)
(* replaced only by a temporary file that was saved whole and opened       *)
(* again.                                                                  *)
(***************************************************************************)
InputUntouched == ret.files.in_path = arg.in_file

DestinationKept == ret.files.out_path = DestBefore(arg)

NoTemporaryLeft == ret.files.tmp_out = "absent"

ReplacedByValidated == DestinationKept \/ ret.files.out_path \in {"cropped", "redacted"}

C30_FailureAtomic ==
    /\ InputUntouched
    /\ pc = "pdf_raised" => (DestinationKept /\ NoTemporaryLeft)
    /\ ReplacedByValidated

\* the saved file did not open again: the call raised and the file is still
\* at the temporary path
C30_Witness ==
    /\ pc = "pdf_raised"
    /\ ret.error = "FileDataError"
    /\ ret.files.tmp_out = "damaged"
    /\ DestinationKept

====
